---- MODULE Spec2Model ----
(***************************************************************************)
(* A model of GeminiClient (packages/core/src/core/client.ts): the chat    *)
(* compression engine with its split-point algorithm, the recursive        *)
(* sendMessageStream state machine, model-routing stickiness and the       *)
(* editor-context injection.                                               *)
(*                                                                         *)
(* A Content is [role, parts]; a part is [kind, len] where len is the      *)
(* number of characters of the part's payload.  Content.parts is taken as  *)
(* present (the empty sequence for a content without parts).               *)
(***************************************************************************)
EXTENDS Integers, Sequences, FiniteSets, TLC

\* ------------------------------------------------------------------ bounds
\* longest contents array handed to findCompressSplitPoint on its own
MaxSplitLen == 4
\* entries of the chat history up to which the host starts new requests
MaxHist == 6
\* sendMessageStream invocations of a session with the history modelled
MaxSessionCount == 2
\* the same two bounds where a chat is followed over three invocations
MaxIdeHist == 9
MaxIdeCount == 3
\* directory-context turns the host adds to one history
MaxDirectoryContexts == 1
\* events one model stream yields
MaxStreamEvents == 2
\* nested sendMessageStream invocations with the history left out
MaxDepth == 102
\* sendMessageStream invocations of a session with the history left out
MaxSeqCount == 3
\* sendMessageStream invocations of a session with history and events modelled
MaxGuardCount == 3
\* attempts retryWithBackoff makes for one generateContent call
MaxAttempts == 3
\* longest argument string handed to /memory add
MaxArgLen == 4

\* ------------------------------------------------------- program constants
MAX_TURNS == 100
\* COMPRESSION_TOKEN_THRESHOLD = 0.7 and COMPRESSION_PRESERVE_THRESHOLD = 0.3,
\* both in tenths
COMPRESSION_TOKEN_THRESHOLD == 7
COMPRESSION_PRESERVE_THRESHOLD == 3
\* fractions are rationals num / FractionDen
FractionDen == 10

\* ------------------------------------------------------------------ contents
TextPart(n) == [kind |-> "text", len |-> n]
FunctionCallPart == [kind |-> "functionCall", len |-> 1]
FunctionResponsePart == [kind |-> "functionResponse", len |-> 1]

UserText(n) == [role |-> "user", parts |-> <<TextPart(n)>>]
ModelText(n) == [role |-> "model", parts |-> <<TextPart(n)>>]
ModelCall == [role |-> "model", parts |-> <<FunctionCallPart>>]
ModelTextCall(n) == [role |-> "model", parts |-> <<TextPart(n), FunctionCallPart>>]
UserResponse == [role |-> "user", parts |-> <<FunctionResponsePart>>]
ModelEmpty == [role |-> "model", parts |-> <<>>]

\* [user 'hello', model 'hi', user 'do X', model functionCall A,
\*  user functionResponse A, model 'done']
ScenarioHistory == <<UserText(5), ModelText(2), UserText(4), ModelCall, UserResponse, ModelText(4)>>

\* part.functionResponse / part.functionCall is set
HasFunctionResponse(c) == \E i \in 1..Len(c.parts) : c.parts[i].kind = "functionResponse"
HasFunctionCall(c) == \E i \in 1..Len(c.parts) : c.parts[i].kind = "functionCall"

\* JSON.stringify(part).length:
\*   {"text":"..."}  {"functionCall":{"name":"..","args":{}}}
\*   {"functionResponse":{"name":"..","response":{}}}
PartChars(p) ==
  CASE p.kind = "text" -> 11 + p.len
    [] p.kind = "functionCall" -> 38 + p.len
    [] p.kind = "functionResponse" -> 46 + p.len

RECURSIVE SumPartChars(_)
SumPartChars(ps) ==
  IF ps = <<>> THEN 0 ELSE PartChars(Head(ps)) + SumPartChars(Tail(ps))

\* JSON.stringify(content).length: {"role":"user","parts":[p1,p2]}
JSONLen(c) ==
  (IF c.role = "user" THEN 26 ELSE 27)
    + SumPartChars(c.parts)
    + (IF Len(c.parts) > 1 THEN Len(c.parts) - 1 ELSE 0)

\* contents.map(JSON.stringify(..).length).reduce((a, b) => a + b, 0)
RECURSIVE TotalChars(_)
TotalChars(cs) ==
  IF cs = <<>> THEN 0 ELSE JSONLen(Head(cs)) + TotalChars(Tail(cs))

\* ------------------------------------------------- findCompressSplitPoint
\* every user content taken as a place to split
IsSplitCandidate_AnyUser(c) == c.role = "user"

\* the entry may start the kept tail: a user content without functionResponse
IsSplitCandidate(c) == c.role = "user" /\ ~HasFunctionResponse(c)

\* the for loop: [found, index]; found = FALSE carries lastSplitPoint.
\* cumulativeCharCount >= totalCharCount * fraction is compared exactly,
\* cumulative * den >= total * num.
RECURSIVE SplitScan(_, _, _, _, _, _)
SplitScan(contents, fraction, totalCharCount, i, cumulativeCharCount, lastSplitPoint) ==
  IF i > Len(contents)
  THEN [found |-> FALSE, index |-> lastSplitPoint]
  ELSE IF IsSplitCandidate(contents[i])
       THEN IF cumulativeCharCount * fraction.den >= totalCharCount * fraction.num
            THEN [found |-> TRUE, index |-> i - 1]
            ELSE SplitScan(contents, fraction, totalCharCount, i + 1,
                           cumulativeCharCount + JSONLen(contents[i]), i - 1)
       ELSE SplitScan(contents, fraction, totalCharCount, i + 1,
                      cumulativeCharCount + JSONLen(contents[i]), lastSplitPoint)

\* the value thrown for a fraction outside (0, 1)
SplitThrows == -1

\* a final check that takes any model-authored last entry as safe
findCompressSplitPoint_AnyModelLast(contents, fraction) ==
  IF SplitScan(contents, fraction, TotalChars(contents), 1, 0, 0).found
       \/ contents = <<>> \/ contents[Len(contents)].role # "model"
  THEN SplitScan(contents, fraction, TotalChars(contents), 1, 0, 0).index
  ELSE Len(contents)

\* the scan alone, without the check whether everything may be compressed
findCompressSplitPoint_ScanOnly(contents, fraction) ==
  SplitScan(contents, fraction, TotalChars(contents), 1, 0, 0).index

\* Indices are zero-based as in the source: the result k keeps contents[k..].
findCompressSplitPoint(contents, fraction) ==
  IF fraction.num <= 0 \/ fraction.num >= fraction.den
  THEN SplitThrows
  ELSE LET scan == SplitScan(contents, fraction, TotalChars(contents), 1, 0, 0)
           n == Len(contents)
       IN IF scan.found
          THEN scan.index
          ELSE IF n > 0 /\ contents[n].role = "model" /\ ~HasFunctionCall(contents[n])
               THEN n
               ELSE scan.index

\* ------------------------------------------------------------------- state
VARIABLES
  client,          \* the GeminiClient's fields, its chat, and the telemetry counter
  config,          \* the Config the client was constructed with
  userMemory,      \* config.getUserMemory()
  ideContext,      \* ideContextStore.get()
  quotaErrorOccurred, \* config.getQuotaErrorOccurred()
  depth,           \* suspended outer sendMessageStream invocations (at yield*)
  frame,           \* the running sendMessageStream invocation
  signalAborted,   \* the caller's AbortSignal
  events,          \* the events yielded to the caller by the top-level call
  lastCompress,    \* observer: the tryCompressChat call of the latest step, if any
  failedNonForced, \* observer: a non-forced compression failed since the chat began
  seq,             \* observer: the current sequence, its router calls and decision
  call,            \* observer: model calls, anomaly retries, retry-failure logs of the call,
                   \*   and whether the editor state changed while a tool call was pending
  splitContents,   \* findCompressSplitPoint called on its own: contents
  splitFraction,   \*   fraction
  splitResult,     \*   the value returned, SplitPending before the call
  memoryArgs,      \* /memory add called on its own: args
  memoryResult,    \*   the value returned, NotCalled before the call
  uiItems,         \*   the items handed to context.ui.addItem
  memoryServices,  \* /memory refresh: context.services.config and what loading does
  memoryLoads,     \*   calls of config.loadHierarchicalGeminiMemory
  cliArgs,         \* loadCliConfig called on its own: argv, settings, trust, stdin
  cliConfig        \*   what the call produced, NotLoaded before the call

clientVars == <<client, config, userMemory, ideContext, quotaErrorOccurred>>
callVars == <<depth, frame, signalAborted, events>>
observerVars == <<lastCompress, failedNonForced, seq, call>>
splitVars == <<splitContents, splitFraction, splitResult>>
memoryVars == <<memoryArgs, memoryResult, uiItems, memoryServices, memoryLoads>>
cliVars == <<cliArgs, cliConfig>>
vars == <<clientVars, callVars, observerVars, splitVars, memoryVars, cliVars>>

SplitPending == -2

\* ------------------------------------------------------------- /memory add
\* strings are sequences of characters
Whitespace == {" ", "\t"}

RECURSIVE TrimStart(_)
TrimStart(str) ==
  IF str # <<>> /\ Head(str) \in Whitespace THEN TrimStart(Tail(str)) ELSE str

RECURSIVE TrimEnd(_)
TrimEnd(str) ==
  IF str # <<>> /\ str[Len(str)] \in Whitespace
  THEN TrimEnd(SubSeq(str, 1, Len(str) - 1))
  ELSE str

\* a trim that leaves the trailing whitespace
Trim_StartOnly(str) == TrimStart(str)

\* args.trim()
Trim(str) == TrimEnd(TrimStart(str))

NotCalled == [type |-> "pending"]

UsageError ==
  [type |-> "message", messageType |-> "error",
   content |-> "Usage: /memory add <text to remember>"]

\* { type: MessageType.INFO, text: `Attempting to save to memory: "${..}"` }
InfoItem(fact) == [type |-> "info", text |-> <<"Attempting to save to memory: ", fact>>]

ToolAction(fact) == [type |-> "tool", toolName |-> "save_memory", toolArgs |-> [fact |-> fact]]

\* the add subcommand's action: the value it returns and the items it adds
memoryAdd(args) ==
  IF args = <<>> \/ Trim(args) = <<>>
  THEN [result |-> UsageError, items |-> <<>>]
  ELSE [result |-> ToolAction(Trim(args)), items |-> <<InfoItem(Trim(args))>>]

\* --------------------------------------------------------- /memory refresh
\* context.services.config is null
NoConfig == "null"
HasConfig == "config"

NoLoad == [status |-> "none"]

\* loadHierarchicalGeminiMemory resolves; memoryContent is kept by its length
Loaded(chars, files) == [status |-> "resolved", memoryContent |-> chars, fileCount |-> files]

\* loadHierarchicalGeminiMemory rejects with an error carrying message
LoadFailed(message) == [status |-> "rejected", message |-> message]

Services(cfg, load) == [config |-> cfg, load |-> load]

\* the promise returned by the async action
Resolved == [type |-> "resolved"]
Rejected(message) == [type |-> "rejected", message |-> message]

RefreshingItem == [type |-> "info", text |-> <<"Refreshing memory from source files...">>]

SuccessItem(load) ==
  [type |-> "info",
   text |-> IF load.memoryContent > 0
            THEN <<"Memory refreshed successfully. Loaded ", load.memoryContent,
                   " characters from ", load.fileCount, " file(s).">>
            ELSE <<"Memory refreshed successfully. No memory content found.">>]

\* getErrorMessage(error) of an Error is its message
ErrorItem(message) == [type |-> "error", text |-> <<"Error refreshing memory: ", message>>]

\* a refresh whose try block has no catch
memoryRefresh_NoCatch(services) ==
  IF services.config = NoConfig
  THEN [result |-> Resolved, items |-> <<RefreshingItem>>, loads |-> 0]
  ELSE IF services.load.status = "resolved"
       THEN [result |-> Resolved, items |-> <<RefreshingItem, SuccessItem(services.load)>>, loads |-> 1]
       ELSE [result |-> Rejected(services.load.message), items |-> <<RefreshingItem>>, loads |-> 1]

\* the refresh subcommand's action: how its promise settles, the items it
\* adds, and how often it calls loadHierarchicalGeminiMemory
memoryRefresh(services) ==
  IF services.config = NoConfig
  THEN [result |-> Resolved, items |-> <<RefreshingItem>>, loads |-> 0]
  ELSE IF services.load.status = "resolved"
       THEN [result |-> Resolved, items |-> <<RefreshingItem, SuccessItem(services.load)>>, loads |-> 1]
       ELSE [result |-> Resolved,
             items |-> <<RefreshingItem, ErrorItem(services.load.message)>>, loads |-> 1]

MemoryIdle ==
  /\ memoryArgs = <<>>
  /\ memoryResult = NotCalled
  /\ uiItems = <<>>
  /\ memoryServices = Services(NoConfig, NoLoad)
  /\ memoryLoads = 0

\* ------------------------------------------------- loadCliConfig
\* the tool names loadCliConfig imports; a name is the sequence of the pieces
\* of its text, so that one name can be the beginning of another
ShellToolName == <<"run_shell_command">>
EditToolName == <<"replace">>
WRITE_FILE_TOOL_NAME == <<"write_file">>
\* the names under which the shell tool can be allowed, its own among them
SHELL_TOOL_NAMES == {ShellToolName, <<"ShellTool">>}

\* allowed.startsWith(shellName)
StartsWith(text, prefix) ==
  Len(prefix) <= Len(text) /\ SubSeq(text, 1, Len(prefix)) = prefix

\* an absent flag or setting
Absent == <<<<"undefined">>>>

\* argv and what loadCliConfig reads besides it
CliArgs(approvalMode, yolo, trustedFolder, promptInteractive, isTTY, query, prompt, experimentalAcp, allowedTools, settingsAllowed) ==
  [approvalMode |-> approvalMode, yolo |-> yolo, trustedFolder |-> trustedFolder,
   promptInteractive |-> promptInteractive, isTTY |-> isTTY, query |-> query,
   prompt |-> prompt, experimentalAcp |-> experimentalAcp,
   allowedTools |-> allowedTools, settingsAllowed |-> settingsAllowed]

\* the approval mode of --approval-mode, else of --yolo; "invalid" where the
\* switch throws; "undefined" is a flag that is absent or empty
\* (if (argv.approvalMode) is false for both)
RequestedApprovalMode(argv) ==
  IF argv.approvalMode # "undefined"
  THEN CASE argv.approvalMode = "yolo" -> "YOLO"
         [] argv.approvalMode = "auto_edit" -> "AUTO_EDIT"
         [] argv.approvalMode = "default" -> "DEFAULT"
         [] OTHER -> "invalid"
  ELSE IF argv.yolo THEN "YOLO" ELSE "DEFAULT"

\* an approval mode that follows the request in an untrusted folder too
ApprovalModeOf_IgnoresTrust(argv) == RequestedApprovalMode(argv)

\* if (!trustedFolder && approvalMode !== ApprovalMode.DEFAULT)
\*   approvalMode = ApprovalMode.DEFAULT
ApprovalModeOf(argv) ==
  IF ~argv.trustedFolder /\ RequestedApprovalMode(argv) # "DEFAULT"
  THEN "DEFAULT"
  ELSE RequestedApprovalMode(argv)

\* argv.allowedTools || settings.tools?.allowed || []
AllowedTools(argv) ==
  IF argv.allowedTools # Absent THEN argv.allowedTools
  ELSE IF argv.settingsAllowed # Absent THEN argv.settingsAllowed
  ELSE <<>>

\* !!argv.promptInteractive || (process.stdin.isTTY && !hasQuery && !argv.prompt)
Interactive(argv) ==
  argv.promptInteractive \/ (argv.isTTY /\ ~argv.query /\ ~argv.prompt)

\* a filter that excludes the shell tool unless its own name is allowed
createToolExclusionFilter_ExactNames(allowedTools, tool) ==
  \A i \in 1..Len(allowedTools) : allowedTools[i] # tool

\* createToolExclusionFilter(allowedTools, allowedToolsSet)(tool)
createToolExclusionFilter(allowedTools, tool) ==
  IF tool = ShellToolName
  THEN ~\E i \in 1..Len(allowedTools) :
          \E shellName \in SHELL_TOOL_NAMES : StartsWith(allowedTools[i], shellName)
  ELSE \A i \in 1..Len(allowedTools) : allowedTools[i] # tool

\* candidates.filter(toolExclusionFilter)
RECURSIVE FilterExcluded(_, _)
FilterExcluded(candidates, allowedTools) ==
  IF candidates = <<>> THEN <<>>
  ELSE (IF createToolExclusionFilter(allowedTools, Head(candidates))
        THEN <<Head(candidates)>> ELSE <<>>)
       \o FilterExcluded(Tail(candidates), allowedTools)

defaultExcludes == <<ShellToolName, EditToolName, WRITE_FILE_TOOL_NAME>>
autoEditExcludes == <<ShellToolName>>

\* extraExcludes of loadCliConfig for an approval mode
ExtraExcludes(argv, approvalMode) ==
  IF ~Interactive(argv) /\ ~argv.experimentalAcp
  THEN CASE approvalMode = "DEFAULT" -> FilterExcluded(defaultExcludes, AllowedTools(argv))
         [] approvalMode = "AUTO_EDIT" -> FilterExcluded(autoEditExcludes, AllowedTools(argv))
         [] OTHER -> <<>>
  ELSE <<>>

NotLoaded == [type |-> "pending"]
InvalidApprovalMode == [type |-> "thrown", message |-> "Invalid approval mode"]

\* loadCliConfig, as far as the approval mode and the excluded tools go
loadCliConfig(argv) ==
  IF RequestedApprovalMode(argv) = "invalid"
  THEN InvalidApprovalMode
  ELSE [type |-> "config", approvalMode |-> ApprovalModeOf(argv),
        extraExcludes |-> ExtraExcludes(argv, ApprovalModeOf(argv))]

CliIdle ==
  /\ cliArgs = CliArgs("undefined", FALSE, TRUE, FALSE, FALSE, FALSE, FALSE, FALSE,
                       Absent, Absent)
  /\ cliConfig = NotLoaded

\* ------------------------------------------------------------ collaborators
DEFAULT_GEMINI_MODEL == "pro"
DEFAULT_GEMINI_FLASH_MODEL == "flash"
DEFAULT_GEMINI_MODEL_AUTO == "auto"
Models == {DEFAULT_GEMINI_MODEL, DEFAULT_GEMINI_FLASH_MODEL}
NoModel == "null"
SessionId == "session"
PromptIds == {"p1", "p2"}
Undefined == -1

\* tokenLimit(model): the context window of the model, in tokens
tokenLimit(model) == 1048576

\* getEffectiveModel(isInFallbackMode, requestedModel)
getEffectiveModel(isInFallbackMode, requestedModel) ==
  IF isInFallbackMode /\ requestedModel = DEFAULT_GEMINI_MODEL
  THEN DEFAULT_GEMINI_FLASH_MODEL
  ELSE requestedModel

\* GeminiChat.getHistory(curated = true): without the malformed model turns
IsValidContent(c) == c.role = "user" \/ Len(c.parts) > 0
Curated(history) == SelectSeq(history, IsValidContent)

\* CompressionStatus
NOOP == "NOOP"
COMPRESSED == "COMPRESSED"
COMPRESSION_FAILED_INFLATED_TOKEN_COUNT == "COMPRESSION_FAILED_INFLATED_TOKEN_COUNT"

\* the serialized length of allSetupText with an empty environment context
HandshakeChars == 146
\* 'Got it. Thanks for the additional context!'
AckChars == 42
Handshake == UserText(HandshakeChars)
Acknowledgement == ModelText(AckChars)

\* ---------------------------------------------------------------- the client
\* _getEffectiveModelForCurrentTurn()
EffectiveModelForCurrentTurn(s) ==
  IF s.currentSequenceModel # NoModel
  THEN s.currentSequenceModel
  ELSE getEffectiveModel(
         config.isInFallbackMode,
         IF config.model = DEFAULT_GEMINI_MODEL_AUTO
         THEN DEFAULT_GEMINI_MODEL
         ELSE config.model)

\* a chat started without the handshake turn
startChat_NoHandshake(s, extraHistory) ==
  [client |-> [s EXCEPT !.forceFullIdeContext = TRUE,
                        !.hasFailedCompressionAttempt = FALSE,
                        !.lastKnownChatUserMemory = userMemory],
   chat |-> [history |-> extraHistory, memory |-> userMemory]]

\* startChat(extraHistory): the client's fields after the call, and the chat
\* it returns (its history and the user memory of its system instruction)
startChat(s, extraHistory) ==
  [client |-> [s EXCEPT !.forceFullIdeContext = TRUE,
                        !.hasFailedCompressionAttempt = FALSE,
                        !.lastKnownChatUserMemory = userMemory],
   chat |-> [history |-> <<Handshake>> \o extraHistory,
             memory |-> userMemory]]

\* this.chat = chat
AdoptChat(s, chat) ==
  [s EXCEPT !.history = chat.history, !.chatMemory = chat.memory]

CompressionInfo(original, new, status) ==
  [originalTokenCount |-> original, newTokenCount |-> new,
   compressionStatus |-> status]

\* Math.floor(chars of the history / 4)
EstimateTokens(history) == TotalChars(history) \div 4

\* a threshold with no default: an unset value lets every count pass
CompressionThreshold_Configured ==
  IF config.contextPercentageThreshold = Undefined
  THEN 0
  ELSE config.contextPercentageThreshold

\* the threshold of a non-forced compression, in tenths
CompressionThreshold ==
  IF config.contextPercentageThreshold = Undefined
  THEN COMPRESSION_TOKEN_THRESHOLD
  ELSE config.contextPercentageThreshold

\* a rebuilt chat of the same estimated size discarded as well
IsInflated_OrEqual(newTokenCount, originalTokenCount) ==
  newTokenCount >= originalTokenCount

\* newTokenCount > originalTokenCount: the rebuilt chat is discarded
IsInflated(newTokenCount, originalTokenCount) ==
  newTokenCount > originalTokenCount

\* the failure recorded for a forced attempt as well
FailureFlag_Always(force) == TRUE

\* hasFailedCompressionAttempt = !force && true
FailureFlag(force) == ~force

\* the early return without the recorded failure
ShortCircuits_EmptyOnly(s, curatedHistory, force) == Len(curatedHistory) = 0

\* curatedHistory.length === 0 || (this.hasFailedCompressionAttempt && !force)
ShortCircuits(s, curatedHistory, force) ==
  Len(curatedHistory) = 0 \/ (s.hasFailedCompressionAttempt /\ ~force)

\* tryCompressChat(prompt_id, force), summaryLen being the length of the text
\* the summarization call answers: the client's fields after the call, the
\* ChatCompressionInfo returned and whether the summarization call was made
tryCompressChat(s, force, summaryLen) ==
  LET model == EffectiveModelForCurrentTurn(s)
      curatedHistory == Curated(s.history)
      originalTokenCount == s.lastPromptTokenCount
      splitPoint == findCompressSplitPoint(
                      curatedHistory,
                      [num |-> FractionDen - COMPRESSION_PRESERVE_THRESHOLD,
                       den |-> FractionDen])
      historyToCompress == SubSeq(curatedHistory, 1, splitPoint)
      historyToKeep == SubSeq(curatedHistory, splitPoint + 1, Len(curatedHistory))
      started == startChat(s, <<UserText(summaryLen), Acknowledgement>> \o historyToKeep)
      rebuilt == [started.client EXCEPT !.forceFullIdeContext = TRUE]
      newTokenCount == EstimateTokens(started.chat.history)
  IN IF ShortCircuits(s, curatedHistory, force)
     THEN [client |-> s, info |-> CompressionInfo(0, 0, NOOP), summarized |-> FALSE, model |-> model]
     ELSE IF ~force /\ originalTokenCount * FractionDen
                          < CompressionThreshold * tokenLimit(model)
     THEN [client |-> s,
           info |-> CompressionInfo(originalTokenCount, originalTokenCount, NOOP),
           summarized |-> FALSE, model |-> model]
     ELSE IF Len(historyToCompress) = 0
     THEN [client |-> s,
           info |-> CompressionInfo(originalTokenCount, originalTokenCount, NOOP),
           summarized |-> FALSE, model |-> model]
     ELSE IF IsInflated(newTokenCount, originalTokenCount)
     THEN [client |-> [rebuilt EXCEPT !.hasFailedCompressionAttempt = FailureFlag(force)],
           info |-> CompressionInfo(originalTokenCount, newTokenCount,
                                    COMPRESSION_FAILED_INFLATED_TOKEN_COUNT),
           summarized |-> TRUE, model |-> model]
     ELSE [client |-> [AdoptChat(rebuilt, started.chat)
                         EXCEPT !.lastPromptTokenCount = newTokenCount],
           info |-> CompressionInfo(originalTokenCount, newTokenCount, COMPRESSED),
           summarized |-> TRUE, model |-> model]

\* an awaited call of a collaborator rejects: the summarization call
\* (generateContent), router.route, checkNextSpeaker
SummaryRejected == -1
RouteRejected == "rejected"
ClassifierRejected == "rejected"

\* the collaborator whose rejection left sendMessageStream or tryCompressChat
\* as an exception
NotThrown == "none"
ThrownBySummarization == "summarization"
ThrownByRouter == "router"
ThrownByClassifier == "classifier"

\* the length of the summary text: getResponseText(summaryResponse) ?? ''
SummaryChars(summaryLen) == IF summaryLen = SummaryRejected THEN 0 ELSE summaryLen

\* tryCompressChat reaches its summarization call and the call rejects: the
\* await is in no try block, so the rejection leaves tryCompressChat
SummarizationThrows(s, force, summaryLen) ==
  summaryLen = SummaryRejected /\ tryCompressChat(s, force, 0).summarized

\* a request handed to the content generator: the model it names, and whether
\* the session was in fallback mode when it was dispatched
NoRequest == [kind |-> "none", model |-> NoModel, inFallback |-> FALSE]

\* the summarization request of tryCompressChat:
\* model = this._getEffectiveModelForCurrentTurn()
SummarizationRequest(s) ==
  [kind |-> "summarization", model |-> EffectiveModelForCurrentTurn(s),
   inFallback |-> config.isInFallbackMode]

\* every attempt of generateContent naming the model the caller asked for
AttemptModel_AsAsked(model) == model

\* apiCall of generateContent: the model of one attempt
AttemptModel(model) ==
  IF config.isInFallbackMode THEN DEFAULT_GEMINI_FLASH_MODEL ELSE model

\* the model calls of the session that are in flight (c.inFlight) and the most
\* that were in flight at one instant of the top-level call (c.peak):
\* a call that is awaited to its end before anything else happens
\* observer: checkNextSpeaker was not called by the invocation that ended last
NotQueried == "unasked"

\* observer: the answer of checkNextSpeaker, or that it was not called
Asked(c, answer) == [c EXCEPT !.nextSpeaker = answer]

AwaitedCall(c) == [c EXCEPT !.peak = IF c.inFlight + 1 > @ THEN c.inFlight + 1 ELSE @]

\* turn.run(..): a model stream is opened
OpenStream(c) == [AwaitedCall(c) EXCEPT !.inFlight = @ + 1]

\* the model stream of the running invocation is over
CloseStream(c) == [c EXCEPT !.inFlight = @ - 1]

\* Turn.run yields Error and InvalidStream when its stream has failed, as
\* the last event of the stream
EndsStream(type) == type \in {"Error", "InvalidStream"}

\* generateContent: not running, or between its attempts
NoGeneration == [pc |-> "idle", model |-> NoModel, attempts |-> 0]

\* ------------------------------------------------------- editor context
NoCursor == [line |-> -1, character |-> -1]
Cursor(l, c) == [line |-> l, character |-> c]
File(path, isActive, cursor, selectedText) ==
  [path |-> path, isActive |-> isActive, cursor |-> cursor,
   selectedText |-> selectedText]
NoFile == File("", FALSE, NoCursor, "")
\* an undefined IdeContext, and one with workspaceState.openFiles
IdeUndefined == [defined |-> FALSE, openFiles |-> <<>>]

\* observer: the editor state of the last injection round, none since the
\* last resetChat, setHistory or compression that rebuilt a chat
NotInjected == [round |-> FALSE, state |-> IdeUndefined]
InjectedState(state) == [round |-> TRUE, state |-> state]
Forgotten(c) == [c EXCEPT !.injected = NotInjected]
Ide(openFiles) == [defined |-> TRUE, openFiles |-> openFiles]

\* openFiles.find((f) => f.isActive)
RECURSIVE FindActive(_)
FindActive(openFiles) ==
  IF openFiles = <<>> THEN NoFile
  ELSE IF Head(openFiles).isActive THEN Head(openFiles)
  ELSE FindActive(Tail(openFiles))

Paths(openFiles) == {openFiles[i].path : i \in 1..Len(openFiles)}
OtherOpenFiles(openFiles) ==
  {openFiles[i].path : i \in {j \in 1..Len(openFiles) : ~openFiles[j].isActive}}

\* the keys of contextData in full mode
FullContextKeys(current) ==
  (IF FindActive(current.openFiles) # NoFile THEN {"activeFile"} ELSE {})
    \cup (IF OtherOpenFiles(current.openFiles) # {} THEN {"otherOpenFiles"} ELSE {})

\* the keys of changes in delta mode
DeltaChangeKeys(last, current) ==
  LET lastActiveFile == FindActive(last.openFiles)
      currentActiveFile == FindActive(current.openFiles)
      lastCursor == lastActiveFile.cursor
      currentCursor == currentActiveFile.cursor
  IN (IF Paths(current.openFiles) \ Paths(last.openFiles) # {}
      THEN {"filesOpened"} ELSE {})
     \cup (IF Paths(last.openFiles) \ Paths(current.openFiles) # {}
           THEN {"filesClosed"} ELSE {})
     \cup (IF currentActiveFile # NoFile
           THEN IF lastActiveFile = NoFile
                   \/ lastActiveFile.path # currentActiveFile.path
                THEN {"activeFileChanged"}
                ELSE (IF currentCursor # NoCursor
                         /\ (lastCursor = NoCursor
                             \/ lastCursor.line # currentCursor.line
                             \/ lastCursor.character # currentCursor.character)
                      THEN {"cursorMoved"} ELSE {})
                     \cup (IF lastActiveFile.selectedText
                                # currentActiveFile.selectedText
                           THEN {"selectionChanged"} ELSE {})
           ELSE IF lastActiveFile # NoFile
                THEN {"activeFileChanged"} ELSE {})

\* the length of contextParts.join('\n') for a payload with these keys
ContextChars(keys) == 120 + 40 * Cardinality(keys)

\* getIdeContextParts(forceFullContext): contextChars = 0 is contextParts = []
getIdeContextParts(s, forceFullContext) ==
  IF ~ideContext.defined
  THEN [mode |-> "none", keys |-> {}, contextChars |-> 0,
        newIdeContext |-> IdeUndefined]
  ELSE IF forceFullContext \/ ~s.lastSentIdeContext.defined
  THEN LET keys == FullContextKeys(ideContext)
       IN [mode |-> "full", keys |-> keys,
           contextChars |-> IF keys = {} THEN 0 ELSE ContextChars(keys),
           newIdeContext |-> ideContext]
  ELSE LET keys == DeltaChangeKeys(s.lastSentIdeContext, ideContext)
       IN [mode |-> "delta", keys |-> keys,
           contextChars |-> IF keys = {} THEN 0 ELSE ContextChars(keys),
           newIdeContext |-> ideContext]

\* -------------------------------------------------------- sendMessageStream
Event(type, a, b) == [type |-> type, value |-> <<a, b>>]

\* a request (PartListUnion) and the length of JSON.stringify(request)
UserRequest(n) == [kind |-> "text", text |-> "user", chars |-> 13 + n]
ToolResponseRequest == [kind |-> "functionResponse", text |-> "", chars |-> 49]
ContinueRequest == [kind |-> "text", text |-> "Please continue.", chars |-> 29]
SystemContinueRequest ==
  [kind |-> "text", text |-> "System: Please continue.", chars |-> 37]

\* the user content GeminiChat stores for a request
RequestContent(request) ==
  IF request.kind = "functionResponse"
  THEN UserResponse
  ELSE UserText(request.chars - 13)

\* the locals of one sendMessageStream invocation
NewFrame(request, prompt_id, turns, isInvalidStreamRetry) ==
  [pc |-> "start", request |-> request, prompt_id |-> prompt_id,
   turns |-> turns, isInvalidStreamRetry |-> isInvalidStreamRetry,
   boundedTurns |-> 0, modelToUse |-> NoModel, pendingToolCalls |-> FALSE,
   consumed |-> 0, controllerAborted |-> FALSE, loopAtStart |-> FALSE]
IdleFrame == [NewFrame(UserRequest(0), SessionId, 0, FALSE) EXCEPT !.pc = "idle"]

\* lastMessage.role === 'model' && lastMessage.parts.some('functionCall' in p)
hasPendingToolCall_Never(history) == FALSE

hasPendingToolCall(history) ==
  /\ Len(history) > 0
  /\ history[Len(history)].role = "model"
  /\ HasFunctionCall(history[Len(history)])

\* a new prompt_id that leaves the sticky model in place
SequenceReset_KeepsModel(s, prompt_id) ==
  [s EXCEPT !.loopPromptId = prompt_id, !.lastPromptId = prompt_id]

\* the sticky model cleared by every invocation
SequenceReset_Always(s, prompt_id) ==
  [s EXCEPT !.loopPromptId = prompt_id,
            !.lastPromptId = prompt_id,
            !.currentSequenceModel = NoModel]

\* if (this.lastPromptId !== prompt_id) { reset; lastPromptId; sticky = null }
SequenceReset(s, prompt_id) ==
  IF s.lastPromptId # prompt_id
  THEN [s EXCEPT !.loopPromptId = prompt_id,
                 !.lastPromptId = prompt_id,
                 !.currentSequenceModel = NoModel]
  ELSE s

\* Math.min(turns, MAX_TURNS)
BoundedTurns(turns) == IF turns < MAX_TURNS THEN turns ELSE MAX_TURNS

\* the guard firing at 95% of the remaining budget already
WillOverflow_AtLeast(estimatedRequestTokenCount, remainingTokenCount) ==
  estimatedRequestTokenCount * 100 >= remainingTokenCount * 95

\* estimatedRequestTokenCount > remainingTokenCount * 0.95
WillOverflow(estimatedRequestTokenCount, remainingTokenCount) ==
  estimatedRequestTokenCount * 100 > remainingTokenCount * 95

\* if (userMemory !== this.lastKnownChatUserMemory) setSystemInstruction(..)
RefreshSystemInstruction(s) ==
  IF userMemory # s.lastKnownChatUserMemory
  THEN [s EXCEPT !.lastKnownChatUserMemory = userMemory,
                 !.chatMemory = userMemory]
  ELSE s

\* an injection that does not record the state it sent
InjectIdeContext_NoSnapshot(s) ==
  LET ide == getIdeContextParts(s, s.forceFullIdeContext \/ Len(s.history) = 0)
  IN IF config.ideMode /\ ~hasPendingToolCall(s.history)
     THEN [s EXCEPT !.history = IF ide.contextChars > 0
                                THEN Append(@, UserText(ide.contextChars))
                                ELSE @,
                    !.forceFullIdeContext = FALSE]
     ELSE s

\* if (this.config.getIdeMode() && !hasPendingToolCall) { ... }
InjectIdeContext(s) ==
  LET ide == getIdeContextParts(s, s.forceFullIdeContext \/ Len(s.history) = 0)
  IN IF config.ideMode /\ ~hasPendingToolCall(s.history)
     THEN [s EXCEPT !.history = IF ide.contextChars > 0
                                THEN Append(@, UserText(ide.contextChars))
                                ELSE @,
                    !.lastSentIdeContext = ide.newIdeContext,
                    !.forceFullIdeContext = FALSE]
     ELSE s

\* the router asked on every invocation
NeedsRouting_Always(s) == TRUE

\* if (this.currentSequenceModel) reuse it, else route and pin the decision
NeedsRouting(s) == s.currentSequenceModel = NoModel

\* an invocation that leaves the counter alone
CountTurn_Skipped(s) == s

\* this.sessionTurnCount++
CountTurn(s) == [s EXCEPT !.sessionTurnCount = @ + 1]

\* the model of the turn: the sticky one, else the router's decision
ModelToUse(s, decision) ==
  IF NeedsRouting(s) THEN decision ELSE s.currentSequenceModel

\* this.currentSequenceModel = modelToUse
PinModel(s, decision) ==
  [s EXCEPT !.currentSequenceModel = ModelToUse(s, decision)]

\* if (compressed.compressionStatus === COMPRESSED) yield ChatCompressed
\* a ChatCompressed event for every compression that changed nothing but NOOP
ChatCompressedEvents_UnlessNoop(info) ==
  IF info.compressionStatus # NOOP
  THEN <<Event("ChatCompressed", info.originalTokenCount, info.newTokenCount)>>
  ELSE <<>>

ChatCompressedEvents(info) ==
  IF info.compressionStatus = COMPRESSED
  THEN <<Event("ChatCompressed", info.originalTokenCount, info.newTokenCount)>>
  ELSE <<>>

\* with mode.history the chat records the request of turn.run(..)
RecordRequest(s, request, mode) ==
  IF mode.history
  THEN [s EXCEPT !.history = Append(@, RequestContent(request))]
  ELSE s

\* ------------------------------------------------------------------- Init
Config(maxSessionTurns, ideMode, continueOnFailedApiCall, skipNextSpeakerCheck, threshold) ==
  [maxSessionTurns |-> maxSessionTurns, ideMode |-> ideMode,
   continueOnFailedApiCall |-> continueOnFailedApiCall,
   skipNextSpeakerCheck |-> skipNextSpeakerCheck,
   contextPercentageThreshold |-> threshold,
   model |-> DEFAULT_GEMINI_MODEL_AUTO, isInFallbackMode |-> FALSE]

NoCompress ==
  [force |-> FALSE, info |-> CompressionInfo(0, 0, "none"), summarized |-> FALSE,
   model |-> NoModel]

\* the client after its constructor and initialize()
InitialClient ==
  [history |-> <<Handshake>>,
   chatMemory |-> "memory",
   sessionTurnCount |-> 0,
   lastPromptId |-> SessionId,
   currentSequenceModel |-> NoModel,
   lastSentIdeContext |-> IdeUndefined,
   forceFullIdeContext |-> TRUE,
   lastKnownChatUserMemory |-> "memory",
   hasFailedCompressionAttempt |-> FALSE,
   loopPromptId |-> SessionId,
   lastPromptTokenCount |-> 0]

InitSession ==
  /\ client = InitialClient
  /\ userMemory = "memory"
  /\ ideContext = IdeUndefined
  /\ quotaErrorOccurred = FALSE
  /\ depth = 0
  /\ frame = IdleFrame
  /\ signalAborted = FALSE
  /\ events = <<>>
  /\ lastCompress = NoCompress
  /\ failedNonForced = FALSE
  /\ seq = [promptId |-> SessionId, routerCalls |-> 0, decision |-> NoModel]
  /\ call = [modelCalls |-> 0, anomalyRetries |-> 0, retryFailures |-> <<>>,
             streamed |-> <<>>, thrown |-> NotThrown,
             gen |-> NoGeneration, lastRequest |-> NoRequest,
             inFlight |-> 0, peak |-> 0,
             pendingToolCalls |-> FALSE, changedWhilePending |-> FALSE,
             nextSpeaker |-> NotQueried, injected |-> NotInjected,
             limitReached |-> FALSE]
  /\ splitContents = <<>>
  /\ splitFraction = [num |-> FractionDen - COMPRESSION_PRESERVE_THRESHOLD,
                      den |-> FractionDen]
  /\ splitResult = SplitPending
  /\ MemoryIdle
  /\ CliIdle

\* ------------------------------------------------- operations of the host
Idle == frame.pc = "idle"
Room(n) == Len(client.history) + n <= MaxHist

\* addHistory(content): the host adds a turn of its own between requests
AddHistory(content) ==
  /\ Idle
  /\ ~call.pendingToolCalls
  /\ Room(1)
  /\ client' = [client EXCEPT !.history = Append(@, content)]
  /\ lastCompress' = NoCompress
  /\ UNCHANGED <<config, userMemory, ideContext, quotaErrorOccurred, callVars,
                 failedNonForced, seq, call, splitVars, memoryVars, cliVars>>

\* a setHistory that leaves forceFullIdeContext as it is
SetHistory_KeepsDeltaMode(history) ==
  /\ Idle
  /\ client' = [client EXCEPT !.history = history]
  /\ call' = Forgotten([call EXCEPT !.pendingToolCalls = FALSE])
  /\ lastCompress' = NoCompress
  /\ UNCHANGED <<config, userMemory, ideContext, quotaErrorOccurred, callVars,
                 failedNonForced, seq, splitVars, memoryVars, cliVars>>

\* setHistory(history)
SetHistory(history) ==
  /\ Idle
  /\ client' = [client EXCEPT !.history = history, !.forceFullIdeContext = TRUE]
  /\ call' = Forgotten([call EXCEPT !.pendingToolCalls = FALSE])
  /\ lastCompress' = NoCompress
  /\ UNCHANGED <<config, userMemory, ideContext, quotaErrorOccurred, callVars,
                 failedNonForced, seq, splitVars, memoryVars, cliVars>>

\* a resetChat that starts the count of session turns again
ResetChat_ResetsTurnCount ==
  /\ Idle
  /\ LET started == startChat(client, <<>>)
     IN client' = [AdoptChat(started.client, started.chat)
                     EXCEPT !.sessionTurnCount = 0]
  /\ call' = Forgotten([call EXCEPT !.pendingToolCalls = FALSE])
  /\ failedNonForced' = FALSE
  /\ lastCompress' = NoCompress
  /\ UNCHANGED <<config, userMemory, ideContext, quotaErrorOccurred, callVars,
                 seq, splitVars, memoryVars, cliVars>>

\* resetChat(): this.chat = await this.startChat()
ResetChat ==
  /\ Idle
  /\ LET started == startChat(client, <<>>)
     IN client' = AdoptChat(started.client, started.chat)
  /\ call' = Forgotten([call EXCEPT !.pendingToolCalls = FALSE])
  /\ failedNonForced' = FALSE
  /\ lastCompress' = NoCompress
  /\ UNCHANGED <<config, userMemory, ideContext, quotaErrorOccurred, callVars,
                 seq, splitVars, memoryVars, cliVars>>

\* the text getDirectoryContextString returns
DirectoryContextChars == 80

\* addDirectoryContext()
AddDirectoryContext ==
  /\ Idle
  /\ Room(1)
  /\ Cardinality({i \in 1..Len(client.history) :
                    client.history[i] = UserText(DirectoryContextChars)})
       < MaxDirectoryContexts
  /\ client' = [client EXCEPT
                  !.history = Append(@, UserText(DirectoryContextChars))]
  /\ lastCompress' = NoCompress
  /\ UNCHANGED <<config, userMemory, ideContext, quotaErrorOccurred, callVars,
                 failedNonForced, seq, call, splitVars, memoryVars, cliVars>>

\* tryCompressChat(prompt_id, force) called by the host
CompressChat(force, summaryLen) ==
  /\ Idle
  /\ Room(0)
  /\ IF SummarizationThrows(client, force, summaryLen)
     THEN /\ call' = [call EXCEPT !.thrown = ThrownBySummarization,
                                  !.lastRequest = SummarizationRequest(client)]
          /\ UNCHANGED <<client, lastCompress, failedNonForced>>
     ELSE \E r \in {tryCompressChat(client, force, SummaryChars(summaryLen))} :
        /\ client' = r.client
        /\ lastCompress' = [force |-> force, info |-> r.info,
                            summarized |-> r.summarized, model |-> r.model]
        /\ failedNonForced' =
             (failedNonForced
                \/ (~force /\ r.info.compressionStatus
                                = COMPRESSION_FAILED_INFLATED_TOKEN_COUNT))
        /\ call' = [(IF r.summarized THEN Forgotten(call) ELSE call)
                       EXCEPT !.thrown = NotThrown,
                              !.lastRequest = IF r.summarized
                                              THEN SummarizationRequest(client)
                                              ELSE @]
  /\ UNCHANGED <<config, userMemory, ideContext, quotaErrorOccurred, callVars,
                 seq, splitVars, memoryVars, cliVars>>

\* the editor reports a new state to ideContextStore
IdeUpdate(context) ==
  /\ Idle
  /\ config.ideMode
  /\ context # ideContext
  /\ ideContext' = context
  /\ lastCompress' = NoCompress
  /\ call' = [call EXCEPT !.changedWhilePending = @ \/ hasPendingToolCall(client.history)]
  /\ UNCHANGED <<client, config, userMemory, quotaErrorOccurred, callVars,
                 failedNonForced, seq, splitVars, memoryVars, cliVars>>

\* a model response reports its prompt token count to uiTelemetryService
SetLastPromptTokenCount(count) ==
  /\ Idle
  /\ count # client.lastPromptTokenCount
  /\ client' = [client EXCEPT !.lastPromptTokenCount = count]
  /\ lastCompress' = NoCompress
  /\ UNCHANGED <<config, userMemory, ideContext, quotaErrorOccurred, callVars,
                 failedNonForced, seq, call, splitVars, memoryVars, cliVars>>

\* the host changes the user memory (a memory addition, an extension
\* refresh): config.getUserMemory() answers memory from now on
SetUserMemory(memory) ==
  /\ Idle
  /\ memory # userMemory
  /\ userMemory' = memory
  /\ lastCompress' = NoCompress
  /\ UNCHANGED <<client, config, ideContext, quotaErrorOccurred, callVars,
                 failedNonForced, seq, call, splitVars, memoryVars, cliVars>>

\* generateContent(contents, generationConfig, abortSignal, model) is called
GenerateContent(model) ==
  /\ Idle
  /\ call.gen.pc = "idle"
  /\ call' = [call EXCEPT !.gen = [pc |-> "attempt", model |-> model,
                                   attempts |-> 0],
                          !.thrown = NotThrown]
  /\ lastCompress' = NoCompress
  /\ UNCHANGED <<clientVars, callVars, failedNonForced, seq, splitVars, memoryVars, cliVars>>

\* one run of apiCall under retryWithBackoff: the request is dispatched with
\* the model of this attempt; it succeeds, fails and is retried, or fails for
\* the last time and generateContent throws
Attempt(succeeds) ==
  /\ call.gen.pc = "attempt"
  /\ \E request \in {[kind |-> "generateContent",
                       model |-> AttemptModel(call.gen.model),
                       inFallback |-> config.isInFallbackMode]} :
       call' = IF succeeds
               THEN [call EXCEPT !.gen = NoGeneration, !.lastRequest = request]
               ELSE IF call.gen.attempts + 1 < MaxAttempts
               THEN [call EXCEPT !.gen.pc = "backoff", !.gen.attempts = @ + 1,
                                 !.lastRequest = request]
               ELSE [call EXCEPT !.gen = NoGeneration, !.lastRequest = request,
                                 !.thrown = "generateContent"]
  /\ lastCompress' = NoCompress
  /\ UNCHANGED <<clientVars, callVars, failedNonForced, seq, splitVars, memoryVars, cliVars>>

\* between two attempts: the delay, and onPersistent429 (handleFallback),
\* which may put the session into fallback mode
Backoff(fallback) ==
  /\ call.gen.pc = "backoff"
  /\ config' = [config EXCEPT !.isInFallbackMode = @ \/ fallback]
  /\ call' = [call EXCEPT !.gen.pc = "attempt"]
  /\ lastCompress' = NoCompress
  /\ UNCHANGED <<client, userMemory, ideContext, quotaErrorOccurred, callVars,
                 failedNonForced, seq, splitVars, memoryVars, cliVars>>

\* ------------------------------------------- a sendMessageStream call chain
\* what a specification observes of a call chain: the chat's recording of
\* the turns in the history, and the log of the events the caller receives;
\* and how long a history and how many invocations it follows
Mode(history, eventLog) ==
  [history |-> history, events |-> eventLog, maxHist |-> MaxHist, maxCount |-> MaxSessionCount]
ChatMode == Mode(TRUE, FALSE)
BareMode == Mode(FALSE, FALSE)
EventMode == Mode(FALSE, TRUE)
FullMode == Mode(TRUE, TRUE)
LongChatMode == [ChatMode EXCEPT !.maxHist = MaxIdeHist, !.maxCount = MaxIdeCount]

RoomIn(mode, n) == Len(client.history) + n <= mode.maxHist

\* a nested invocation may start: room for its entries when the history is
\* modelled, the depth bound when it is left out
CanRecurse(mode) ==
  IF mode.history
  THEN RoomIn(mode, 3) /\ client.sessionTurnCount < mode.maxCount
  ELSE depth < MaxDepth

\* the events the caller has received after these are yielded
Yield_Prepended(yielded, mode) == IF mode.events THEN yielded \o events ELSE events

Yield(yielded, mode) == IF mode.events THEN events \o yielded ELSE events

\* for await (const event of resultStream): the events the streams of the
\* chain hand to the loop, in the order they are produced, each with the
\* chain level of its stream and whether the loop detector fired on it
Streamed(type, fired, mode) == IF mode.events THEN Append(call.streamed, [type |-> type, level |-> depth, fired |-> fired]) ELSE call.streamed

\* anomaly retries are counted up to this number
MaxCounted == 2
CountUp(n) == IF n < MaxCounted THEN n + 1 ELSE n

\* the entries one invocation adds to the history at most: the request, the
\* reply, and the editor context when it is injected
EntriesOfInvocation ==
  IF config.ideMode /\ ~hasPendingToolCall(client.history) THEN 3 ELSE 2

\* the host calls sendMessageStream(request, signal, prompt_id, turns)
SendMessage(request, prompt_id, turns, quota, mode) ==
  /\ Idle
  /\ (request.kind = "functionResponse") <=> call.pendingToolCalls
  /\ mode.history => RoomIn(mode, EntriesOfInvocation)
  /\ frame' = NewFrame(request, prompt_id, turns, FALSE)
  /\ depth' = 0
  /\ signalAborted' = FALSE
  /\ events' = <<>>
  /\ quotaErrorOccurred' = quota
  /\ call' = [call EXCEPT !.modelCalls = 0, !.anomalyRetries = 0,
                          !.retryFailures = <<>>, !.streamed = <<>>,
                          !.thrown = NotThrown, !.inFlight = 0, !.peak = 0]
  /\ lastCompress' = NoCompress
  /\ UNCHANGED <<client, config, userMemory, ideContext,
                 failedNonForced, seq, splitVars, memoryVars, cliVars>>

\* a tryCompressChat call as the observer records it
Compression(force, r) ==
  [force |-> force, info |-> r.info, summarized |-> r.summarized,
   model |-> r.model]

\* the invocation went past its compression and then injected the editor
\* context: the compression keeps a functionCall entry last, so the pending
\* call seen by the injection is the one of the history at the entry
ReachedInjection(compression) ==
  /\ compression.info.compressionStatus # NoCompress.info.compressionStatus
  /\ config.ideMode
  /\ ~hasPendingToolCall(client.history)

\* observer: no editor change is waiting for an injection any more
Injected(c) ==
  [c EXCEPT !.changedWhilePending = FALSE, !.injected = InjectedState(ideContext)]

\* the invocation has run from its entry to turn.run(..) (f.pc = "stream"), to
\* an early return (f.pc = "done") or to an await that rejected
\* (f.pc = "thrown"): s is the client it leaves, compression the
\* tryCompressChat call that returned, routed whether it asked the router
SendOutcome(s, f, yielded, compression, routed, decision, mode) ==
  LET seq0 == IF seq.promptId # f.prompt_id
              THEN [promptId |-> f.prompt_id, routerCalls |-> 0,
                    decision |-> NoModel]
              ELSE seq
  IN /\ client' = s
     /\ frame' = f
     /\ events' = Yield(yielded, mode)
     /\ lastCompress' = compression
     /\ failedNonForced' =
          (failedNonForced
             \/ compression.info.compressionStatus
                  = COMPRESSION_FAILED_INFLATED_TOKEN_COUNT)
     /\ seq' = IF routed
               THEN [seq0 EXCEPT !.routerCalls = @ + 1,
                                 !.decision = IF @ = NoModel THEN decision ELSE @]
               ELSE seq0
     /\ \E c1 \in {[call EXCEPT !.limitReached =
                       @ \/ \E i \in 1..Len(yielded) :
                              yielded[i].type = "MaxSessionTurns"]} :
        \E c0 \in {Asked(IF ReachedInjection(compression) THEN Injected(c1)
                      ELSE IF compression.summarized THEN Forgotten(c1)
                      ELSE c1,
                      NotQueried)} :
        \E c \in {IF compression.summarized
                  THEN [AwaitedCall(c0) EXCEPT !.lastRequest =
                          [kind |-> "summarization", model |-> compression.model,
                           inFallback |-> config.isInFallbackMode]]
                  ELSE c0} :
          call' = IF f.pc = "stream"
                  THEN [OpenStream(c) EXCEPT !.modelCalls = @ + 1,
                                             !.pendingToolCalls = FALSE]
                  ELSE IF f.pc = "thrown" /\ routed
                  THEN [c EXCEPT !.thrown = ThrownByRouter]
                  ELSE IF f.pc = "thrown"
                  THEN [AwaitedCall(c) EXCEPT !.thrown = ThrownBySummarization,
                                              !.lastRequest = SummarizationRequest(s)]
                  ELSE c

\* an invocation that goes on whatever loopDetector.turnStarted answers
StopsAtTurnStart_Never(loopDetected) == FALSE

\* if (loopDetected) { yield LoopDetected; return turn; }
StopsAtTurnStart(loopDetected) == loopDetected

\* sendMessageStream from its entry to turn.run(..) or to an early return:
\* summaryLen, loopDetected and decision are the answers of the summarization
\* call, of loopDetector.turnStarted and of router.route; a summarization
\* call or a router.route that rejects ends the invocation with an exception
SendStart(summaryLen, loopDetected, decision, mode) ==
  /\ frame.pc = "start"
  /\ UNCHANGED <<config, userMemory, ideContext, quotaErrorOccurred, depth,
                 signalAborted, splitVars, memoryVars, cliVars>>
  /\ \E s2 \in {CountTurn(SequenceReset(client, frame.prompt_id))},
        boundedTurns \in {BoundedTurns(frame.turns)} :
       \E stopped \in {[frame EXCEPT !.pc = "done",
                                      !.boundedTurns = boundedTurns]},
          thrown \in {[frame EXCEPT !.pc = "thrown",
                                     !.boundedTurns = boundedTurns]},
          estimatedRequestTokenCount \in {frame.request.chars \div 4},
          remainingTokenCount \in
            {tokenLimit(EffectiveModelForCurrentTurn(s2))
               - s2.lastPromptTokenCount} :
         IF config.maxSessionTurns > 0
              /\ s2.sessionTurnCount > config.maxSessionTurns
         THEN SendOutcome(s2, stopped, <<Event("MaxSessionTurns", 0, 0)>>,
                          NoCompress, FALSE, decision, mode)
         ELSE IF boundedTurns = 0
         THEN SendOutcome(s2, stopped, <<>>, NoCompress, FALSE, decision, mode)
         ELSE IF WillOverflow(estimatedRequestTokenCount, remainingTokenCount)
         THEN SendOutcome(s2, stopped,
                          <<Event("ContextWindowWillOverflow",
                                  estimatedRequestTokenCount,
                                  remainingTokenCount)>>,
                          NoCompress, FALSE, decision, mode)
         ELSE IF SummarizationThrows(s2, FALSE, summaryLen)
         THEN SendOutcome(s2, thrown, <<>>, NoCompress, FALSE, decision, mode)
         ELSE \E compressed \in {tryCompressChat(s2, FALSE, SummaryChars(summaryLen))} :
              \E s4 \in {InjectIdeContext(
                            RefreshSystemInstruction(compressed.client))} :
                IF StopsAtTurnStart(loopDetected)
                THEN SendOutcome(s4, [stopped EXCEPT !.loopAtStart = loopDetected],
                                 ChatCompressedEvents(compressed.info)
                                   \o <<Event("LoopDetected", 0, 0)>>,
                                 Compression(FALSE, compressed), FALSE,
                                 decision, mode)
                ELSE IF NeedsRouting(s4) /\ decision = RouteRejected
                THEN SendOutcome(s4, [thrown EXCEPT !.loopAtStart = loopDetected],
                                 ChatCompressedEvents(compressed.info),
                                 Compression(FALSE, compressed), TRUE,
                                 NoModel, mode)
                ELSE SendOutcome(
                       RecordRequest(PinModel(s4, decision), frame.request, mode),
                       [frame EXCEPT !.pc = "stream",
                                     !.boundedTurns = boundedTurns,
                                     !.loopAtStart = loopDetected,
                                     !.modelToUse = ModelToUse(s4, decision)],
                       ChatCompressedEvents(compressed.info),
                       Compression(FALSE, compressed), NeedsRouting(s4),
                       decision, mode)

StreamEventTypes == {"Content", "ToolCallRequest", "InvalidStream", "Error"}

Streaming == frame.pc = "stream" /\ frame.consumed < MaxStreamEvents

\* a detector that fires and lets the loop go on reading the stream
LoopFires_KeepsReading(mode) ==
  /\ Streaming
  /\ events' = Yield(<<Event("LoopDetected", 0, 0)>>, mode)
  /\ frame' = [frame EXCEPT !.consumed = @ + 1, !.controllerAborted = TRUE]
  /\ \E type \in StreamEventTypes :
       call' = [call EXCEPT !.streamed = Streamed(type, TRUE, mode)]
  /\ lastCompress' = NoCompress
  /\ UNCHANGED <<clientVars, depth, signalAborted,
                 failedNonForced, seq, splitVars, memoryVars, cliVars>>

\* loopDetector.addAndCheck(event) fires: LoopDetected, controller.abort()
LoopFires(mode) ==
  /\ Streaming
  /\ events' = Yield(<<Event("LoopDetected", 0, 0)>>, mode)
  /\ frame' = [frame EXCEPT !.pc = "done", !.controllerAborted = TRUE]
  /\ \E type \in StreamEventTypes :
       call' = [CloseStream(call) EXCEPT !.streamed = Streamed(type, TRUE, mode)]
  /\ lastCompress' = NoCompress
  /\ UNCHANGED <<clientVars, depth, signalAborted,
                 failedNonForced, seq, splitVars, memoryVars, cliVars>>

\* a retry started after any event of the stream
IsAnomaly_AnyEvent(type) == config.continueOnFailedApiCall

\* an InvalidStream event handled as an anomaly whatever the configuration
IsAnomaly_IgnoresConfig(type) == type = "InvalidStream"

IsAnomaly(type) == type = "InvalidStream" /\ config.continueOnFailedApiCall

\* an event that is forwarded and leaves the loop running
ForwardEvent(type, mode) ==
  /\ Streaming
  /\ type \in StreamEventTypes \ {"Error"}
  /\ ~IsAnomaly(type)
  /\ events' = Yield(<<Event(type, 0, 0)>>, mode)
  /\ frame' = [frame EXCEPT !.consumed = @ + 1,
                            !.pendingToolCalls = @ \/ type = "ToolCallRequest"]
  /\ call' = [call EXCEPT !.streamed = Streamed(type, FALSE, mode)]
  /\ lastCompress' = NoCompress
  /\ UNCHANGED <<clientVars, depth, signalAborted,
                 failedNonForced, seq, splitVars, memoryVars, cliVars>>

\* an Error event: forwarded, then return turn
ErrorEvent(mode) ==
  /\ Streaming
  /\ events' = Yield(<<Event("Error", 0, 0)>>, mode)
  /\ frame' = [frame EXCEPT !.pc = "done"]
  /\ call' = [CloseStream(call) EXCEPT !.streamed = Streamed("Error", FALSE, mode)]
  /\ lastCompress' = NoCompress
  /\ UNCHANGED <<clientVars, depth, signalAborted,
                 failedNonForced, seq, splitVars, memoryVars, cliVars>>

\* the attempt count of ContentRetryFailureEvent
RetryFailureAttempts == 4

\* every invocation retrying after an InvalidStream event
MayRetryAnomaly_Always(f) == TRUE

\* the invocation that retries after an InvalidStream event
MayRetryAnomaly(f) == ~f.isInvalidStreamRetry

\* InvalidStream in an invocation that may retry:
\* yield* sendMessageStream('System: Please continue.', .., boundedTurns - 1, true)
AnomalyRetry(mode) ==
  /\ Streaming
  /\ MayRetryAnomaly(frame)
  /\ CanRecurse(mode)
  /\ \E type \in {t \in StreamEventTypes : IsAnomaly(t)} :
       /\ events' = Yield(<<Event(type, 0, 0)>>, mode)
       /\ call' = [(IF EndsStream(type) THEN CloseStream(call) ELSE call)
                     EXCEPT !.anomalyRetries = CountUp(@),
                            !.streamed = Streamed(type, FALSE, mode)]
  /\ depth' = depth + 1
  /\ frame' = NewFrame(SystemContinueRequest, frame.prompt_id,
                       frame.boundedTurns - 1, TRUE)
  /\ lastCompress' = NoCompress
  /\ UNCHANGED <<clientVars, signalAborted, failedNonForced,
                 seq, splitVars, memoryVars, cliVars>>

\* InvalidStream in the retry itself: logContentRetryFailure, return turn
AnomalyFailure(mode) ==
  /\ Streaming
  /\ IsAnomaly("InvalidStream")
  /\ ~MayRetryAnomaly(frame)
  /\ events' = Yield(<<Event("InvalidStream", 0, 0)>>, mode)
  /\ frame' = [frame EXCEPT !.pc = "done"]
  /\ call' = [CloseStream(call) EXCEPT !.retryFailures = Append(@, RetryFailureAttempts),
                          !.streamed = Streamed("InvalidStream", FALSE, mode)]
  /\ lastCompress' = NoCompress
  /\ UNCHANGED <<clientVars, depth, signalAborted,
                 failedNonForced, seq, splitVars, memoryVars, cliVars>>

\* the length of the text of a model reply
ReplyChars == 20

\* the model content GeminiChat stores when the stream is exhausted
RecordReply(s, f, mode) ==
  IF mode.history
  THEN [s EXCEPT !.history =
          Append(@, IF f.pendingToolCalls THEN ModelCall ELSE ModelText(ReplyChars))]
  ELSE s

\* a next-speaker check that goes on after a quota error
ChecksNextSpeaker_IgnoresQuota(f) ==
  /\ ~f.pendingToolCalls
  /\ ~signalAborted
  /\ ~config.skipNextSpeakerCheck

\* the next-speaker check is reached
ChecksNextSpeaker(f) ==
  /\ ~f.pendingToolCalls
  /\ ~signalAborted
  /\ ~quotaErrorOccurred
  /\ ~config.skipNextSpeakerCheck

\* the stream is exhausted and the invocation returns its turn, or its
\* await of checkNextSpeaker rejects
StreamEnd(nextSpeaker, mode) ==
  /\ frame.pc = "stream"
  /\ ~(ChecksNextSpeaker(frame) /\ nextSpeaker = "model")
  /\ client' = RecordReply(client, frame, mode)
  /\ IF ChecksNextSpeaker(frame) /\ nextSpeaker = ClassifierRejected
     THEN /\ frame' = [frame EXCEPT !.pc = "thrown"]
          /\ call' = [Asked(AwaitedCall(CloseStream(call)), nextSpeaker)
                        EXCEPT !.pendingToolCalls = frame.pendingToolCalls,
                               !.thrown = ThrownByClassifier]
     ELSE /\ frame' = [frame EXCEPT !.pc = "done"]
          /\ call' = [(IF ChecksNextSpeaker(frame)
                        THEN Asked(AwaitedCall(CloseStream(call)), nextSpeaker)
                        ELSE CloseStream(call))
                        EXCEPT !.pendingToolCalls = frame.pendingToolCalls]
  /\ lastCompress' = NoCompress
  /\ UNCHANGED <<config, userMemory, ideContext, quotaErrorOccurred, depth,
                 signalAborted, events, failedNonForced, seq,
                 splitVars, memoryVars, cliVars>>

\* a continuation handed the marker of the invocation that starts it
ContinuationMarker_Inherited(f) == f.isInvalidStreamRetry

\* isInvalidStreamRetry of the continuation: the parameter's default,
\* "false here, as this is a next speaker check"
ContinuationMarker(f) == FALSE

\* the stream is exhausted and checkNextSpeaker answers 'model':
\* yield* sendMessageStream('Please continue.', .., boundedTurns - 1)
Continuation(mode) ==
  /\ frame.pc = "stream"
  /\ ChecksNextSpeaker(frame)
  /\ IF mode.history
     THEN RoomIn(mode, 4) /\ client.sessionTurnCount < mode.maxCount
     ELSE depth < MaxDepth
  /\ client' = RecordReply(client, frame, mode)
  /\ depth' = depth + 1
  /\ frame' = NewFrame(ContinueRequest, frame.prompt_id,
                       frame.boundedTurns - 1, ContinuationMarker(frame))
  /\ call' = Asked(AwaitedCall(CloseStream(call)), "model")
  /\ lastCompress' = NoCompress
  /\ UNCHANGED <<config, userMemory, ideContext, quotaErrorOccurred,
                 signalAborted, events, failedNonForced, seq,
                 splitVars, memoryVars, cliVars>>

\* a suspended invocation that goes on reading its stream after its nested call
ResumedFrame_Streaming == [IdleFrame EXCEPT !.pc = "stream"]

\* a suspended invocation whose nested call has returned: it returns its turn
\* next, and none of its locals is read again
ResumedFrame == [IdleFrame EXCEPT !.pc = "done"]

\* return turn: of the running invocation, then of each suspended one
Return ==
  /\ frame.pc = "done"
  /\ IF depth > 0
     THEN depth' = depth - 1 /\ frame' = ResumedFrame /\ events' = events
     ELSE depth' = depth /\ frame' = IdleFrame /\ events' = <<>>
  /\ call' = IF depth > 0 THEN call
             ELSE [call EXCEPT !.streamed = <<>>, !.nextSpeaker = NotQueried]
  /\ lastCompress' = NoCompress
  /\ UNCHANGED <<clientVars, signalAborted,
                 failedNonForced, seq, splitVars, memoryVars, cliVars>>

\* an exception leaves the running invocation: yield* rethrows it in each
\* suspended one, none of them catches it, and the generator the caller
\* iterates rejects
Propagate ==
  /\ frame.pc = "thrown"
  /\ IF depth > 0
     THEN depth' = depth - 1 /\ frame' = frame /\ events' = events /\ call' = call
     ELSE /\ depth' = depth /\ frame' = IdleFrame /\ events' = <<>>
          /\ call' = [call EXCEPT !.streamed = <<>>, !.nextSpeaker = NotQueried]
  /\ lastCompress' = NoCompress
  /\ UNCHANGED <<clientVars, signalAborted,
                 failedNonForced, seq, splitVars, memoryVars, cliVars>>

\* the caller aborts its signal while the call runs
AbortSignal ==
  /\ frame.pc = "stream"
  /\ ~signalAborted
  /\ signalAborted' = TRUE
  /\ lastCompress' = NoCompress
  /\ UNCHANGED <<clientVars, depth, frame, events,
                 failedNonForced, seq, call, splitVars, memoryVars, cliVars>>

\* ------------------------------------------------------------ input domains
UserChars == 30
SummaryLens == {0, 200}
TokenCounts == {0, 800000}
HostEntries == {UserText(UserChars), ModelText(ReplyChars)}
HostHistories ==
  {<<>>,
   <<ModelEmpty>>,
   <<Handshake, UserText(UserChars), ModelCall>>,
   <<UserText(5), ModelText(2), UserText(4), ModelCall, UserResponse,
     ModelText(4)>>}
IdeStates ==
  {Ide(<<File("a", TRUE, NoCursor, "")>>),
   Ide(<<File("a", TRUE, Cursor(1, 1), "")>>)}
Requests == {UserRequest(UserChars), ToolResponseRequest}
TurnInputs == {0, 1, 4}
WideTurnInputs == {-1, 0, 1, MAX_TURNS - 1, MAX_TURNS, MAX_TURNS + 1}
NextSpeakers == {"model", "user"}
SessionConfigs ==
  {Config(0, TRUE, FALSE, FALSE, Undefined),
   Config(0, FALSE, TRUE, FALSE, 0)}
SeqConfigs ==
  {Config(0, FALSE, TRUE, FALSE, Undefined),
   Config(2, FALSE, FALSE, FALSE, Undefined)}
CompressConfigs ==
  {Config(0, FALSE, FALSE, FALSE, Undefined),
   Config(0, FALSE, FALSE, FALSE, 0),
   Config(0, FALSE, FALSE, FALSE, 5)}
\* counts below, at and above half the context window
CompressTokenCounts ==
  TokenCounts \cup {tokenLimit(DEFAULT_GEMINI_MODEL) \div 2 - 1,
                    tokenLimit(DEFAULT_GEMINI_MODEL) \div 2}
TurnConfigs ==
  {Config(0, FALSE, TRUE, FALSE, Undefined),
   Config(0, FALSE, FALSE, FALSE, Undefined)}

\* ------------------------- the chat: its history and the compression of it
Init == InitSession /\ config \in SessionConfigs

Next ==
  \/ ResetChat
  \/ AddDirectoryContext
  \/ \E force \in BOOLEAN, n \in SummaryLens : CompressChat(force, n)
  \/ \E ctx \in IdeStates : IdeUpdate(ctx)
  \/ \E n \in TokenCounts : SetLastPromptTokenCount(n)
  \/ /\ client.sessionTurnCount < MaxSessionCount
     /\ \E r \in Requests : SendMessage(r, "p1", MAX_TURNS, FALSE, ChatMode)
  \/ \E n \in SummaryLens, l \in BOOLEAN :
       SendStart(n, l, DEFAULT_GEMINI_MODEL, ChatMode)
  \/ LoopFires(ChatMode)
  \/ \E e \in StreamEventTypes : ForwardEvent(e, ChatMode)
  \/ ErrorEvent(ChatMode)
  \/ AnomalyRetry(ChatMode)
  \/ AnomalyFailure(ChatMode)
  \/ \E a \in NextSpeakers : StreamEnd(a, ChatMode)
  \/ Continuation(ChatMode)
  \/ Return

Spec == Init /\ [][Next]_vars

\* ------------------------------- the host edits and compresses the history
InitCompress == InitSession /\ config \in CompressConfigs

NextCompress ==
  \/ \E c \in HostEntries : AddHistory(c)
  \/ \E h \in HostHistories : SetHistory(h)
  \/ ResetChat
  \/ \E force \in BOOLEAN, n \in SummaryLens : CompressChat(force, n)
  \/ \E n \in CompressTokenCounts : SetLastPromptTokenCount(n)

SpecCompress == InitCompress /\ [][NextCompress]_vars

\* ------------------------------ sequences of calls, the history left out
InitSeq == InitSession /\ config \in SeqConfigs

NextSeq ==
  \/ /\ client.sessionTurnCount < MaxSeqCount
     /\ \E p \in PromptIds, t \in TurnInputs :
          SendMessage(UserRequest(UserChars), p, t, FALSE, EventMode)
  \/ \E l \in BOOLEAN, m \in Models : SendStart(0, l, m, EventMode)
  \/ LoopFires(EventMode)
  \/ \E e \in StreamEventTypes : ForwardEvent(e, EventMode)
  \/ ErrorEvent(EventMode)
  \/ AnomalyRetry(EventMode)
  \/ AnomalyFailure(EventMode)
  \/ \E a \in NextSpeakers : StreamEnd(a, EventMode)
  \/ Continuation(EventMode)
  \/ Return

SpecSeq == InitSeq /\ [][NextSeq]_vars

\* ------------- sequences of calls with the host editing the chat in between
StickyConfigs == {Config(0, FALSE, FALSE, FALSE, Undefined), Config(0, FALSE, TRUE, FALSE, 0)}
StickyTurnInputs == {2}
StickyHistories == {<<>>, <<Handshake, UserText(UserChars), ModelCall>>}

InitSticky == InitSession /\ config \in StickyConfigs

NextSticky ==
  \/ ResetChat
  \/ AddHistory(ModelText(ReplyChars))
  \/ \E h \in StickyHistories : SetHistory(h)
  \/ \E force \in BOOLEAN : CompressChat(force, 0)
  \/ \E n \in TokenCounts : SetLastPromptTokenCount(n)
  \/ /\ client.sessionTurnCount < MaxSessionCount
     /\ \E p \in PromptIds, t \in StickyTurnInputs :
          SendMessage(UserRequest(UserChars), p, t, FALSE, BareMode)
  \/ \E l \in BOOLEAN, m \in Models : SendStart(0, l, m, BareMode)
  \/ LoopFires(BareMode)
  \/ \E e \in StreamEventTypes : ForwardEvent(e, BareMode)
  \/ ErrorEvent(BareMode)
  \/ AnomalyRetry(BareMode)
  \/ AnomalyFailure(BareMode)
  \/ \E a \in NextSpeakers : StreamEnd(a, BareMode)
  \/ Continuation(BareMode)
  \/ Return

SpecSticky == InitSticky /\ [][NextSticky]_vars

\* ----------------- a chat with editor mode on, followed over three calls
IdeConfigs == {Config(0, TRUE, FALSE, FALSE, Undefined)}

InitIde == InitSession /\ config \in IdeConfigs

\* the editor states, and the active file with its cursor on another line
IdeCursorStates == IdeStates \cup {Ide(<<File("a", TRUE, Cursor(2, 1), "")>>)}

\* the histories the host installs: none, and one exchange
IdeHistories == {<<>>, <<UserText(5), ModelText(2)>>}

NextIde ==
  \/ ResetChat
  \/ \E h \in IdeHistories : SetHistory(h)
  \/ CompressChat(TRUE, 0)
  \/ \E n \in TokenCounts : SetLastPromptTokenCount(n)
  \/ \E ctx \in IdeCursorStates : IdeUpdate(ctx)
  \/ /\ client.sessionTurnCount < MaxIdeCount
     /\ \E r \in Requests : SendMessage(r, "p1", MAX_TURNS, FALSE, LongChatMode)
  \/ \E l \in BOOLEAN : SendStart(0, l, DEFAULT_GEMINI_MODEL, LongChatMode)
  \/ LoopFires(LongChatMode)
  \/ \E e \in StreamEventTypes : ForwardEvent(e, LongChatMode)
  \/ ErrorEvent(LongChatMode)
  \/ \E a \in NextSpeakers : StreamEnd(a, LongChatMode)
  \/ Continuation(LongChatMode)
  \/ Return

SpecIde == InitIde /\ [][NextIde]_vars

\* ------------------------------ one call chain of any depth, bare as well
InitTurns == InitSession /\ config \in TurnConfigs

NextTurns ==
  \/ /\ client.sessionTurnCount = 0
     /\ \E t \in WideTurnInputs :
          SendMessage(UserRequest(UserChars), "p1", t, FALSE, BareMode)
  \/ \E l \in BOOLEAN : SendStart(0, l, DEFAULT_GEMINI_MODEL, BareMode)
  \/ LoopFires(BareMode)
  \/ \E e \in StreamEventTypes : ForwardEvent(e, BareMode)
  \/ ErrorEvent(BareMode)
  \/ AnomalyRetry(BareMode)
  \/ AnomalyFailure(BareMode)
  \/ \E a \in NextSpeakers : StreamEnd(a, BareMode)
  \/ Continuation(BareMode)
  \/ Return

SpecTurns == InitTurns /\ [][NextTurns]_vars

\* ------------- the guards at the entry of an invocation, history and events
\* requests whose estimate is 9500 and 9501 tokens, and a recorded prompt
\* token count that leaves 10000 tokens of the window
GuardRequests ==
  {UserRequest(UserChars), UserRequest(4 * 9500 - 13), UserRequest(4 * 9501 - 13),
   ToolResponseRequest}
GuardTokenCounts == {0, tokenLimit(DEFAULT_GEMINI_MODEL) - 10000}
GuardTurnInputs == {0, 1, MAX_TURNS}
GuardConfigs ==
  {Config(0, FALSE, TRUE, FALSE, Undefined),
   Config(1, FALSE, FALSE, FALSE, Undefined),
   Config(-1, TRUE, FALSE, FALSE, Undefined)}

InitGuards == InitSession /\ config \in GuardConfigs

NextGuards ==
  \/ \E n \in GuardTokenCounts : SetLastPromptTokenCount(n)
  \/ \E ctx \in IdeStates : IdeUpdate(ctx)
  \/ /\ client.sessionTurnCount < MaxGuardCount
     /\ \E r \in GuardRequests, t \in GuardTurnInputs :
          SendMessage(r, "p1", t, FALSE, FullMode)
  \/ \E n \in SummaryLens, l \in BOOLEAN :
       SendStart(n, l, DEFAULT_GEMINI_MODEL, FullMode)
  \/ LoopFires(FullMode)
  \/ \E e \in StreamEventTypes : ForwardEvent(e, FullMode)
  \/ ErrorEvent(FullMode)
  \/ AnomalyRetry(FullMode)
  \/ AnomalyFailure(FullMode)
  \/ \E a \in NextSpeakers : StreamEnd(a, FullMode)
  \/ Continuation(FullMode)
  \/ Return

SpecGuards == InitGuards /\ [][NextGuards]_vars

\* ------------------ the end of a stream: the caller's signal, a quota error
\* and the next-speaker check, enabled and disabled
SpeakerConfigs ==
  {Config(0, FALSE, FALSE, FALSE, Undefined),
   Config(0, FALSE, FALSE, TRUE, Undefined)}
SpeakerTurnInputs == {1, 3}

InitSpeaker == InitSession /\ config \in SpeakerConfigs

NextSpeaker ==
  \/ /\ client.sessionTurnCount < MaxSessionCount
     /\ \E r \in Requests, t \in SpeakerTurnInputs, q \in BOOLEAN :
          SendMessage(r, "p1", t, q, BareMode)
  \/ \E l \in BOOLEAN : SendStart(0, l, DEFAULT_GEMINI_MODEL, BareMode)
  \/ LoopFires(BareMode)
  \/ \E e \in StreamEventTypes : ForwardEvent(e, BareMode)
  \/ ErrorEvent(BareMode)
  \/ AbortSignal
  \/ \E a \in NextSpeakers : StreamEnd(a, BareMode)
  \/ Continuation(BareMode)
  \/ Return

SpecSpeaker == InitSpeaker /\ [][NextSpeaker]_vars

\* ----------- the user memory changes between the invocations of a session
\* whose compressions succeed and fail
UserMemories == {"memory", "memory, edited"}
InstructionConfigs == {Config(0, FALSE, FALSE, TRUE, 0)}

InitInstruction == InitSession /\ config \in InstructionConfigs

NextInstruction ==
  \/ ResetChat
  \/ \E m \in UserMemories : SetUserMemory(m)
  \/ \E force \in BOOLEAN, n \in SummaryLens : CompressChat(force, n)
  \/ \E n \in TokenCounts : SetLastPromptTokenCount(n)
  \/ /\ client.sessionTurnCount < MaxSessionCount
     /\ \E r \in Requests : SendMessage(r, "p1", MAX_TURNS, FALSE, ChatMode)
  \/ \E n \in SummaryLens :
       SendStart(n, FALSE, DEFAULT_GEMINI_MODEL, ChatMode)
  \/ \E e \in StreamEventTypes : ForwardEvent(e, ChatMode)
  \/ \E a \in NextSpeakers : StreamEnd(a, ChatMode)
  \/ Return

SpecInstruction == InitInstruction /\ [][NextInstruction]_vars

\* ------ a session with a maximum of session turns, reset, replaced and
\* compressed by the host between the calls
SessionConfigsWithLimit == {Config(1, FALSE, FALSE, FALSE, 0)}
SessionHistories == {<<>>, <<UserText(5), ModelText(2)>>}

InitLimit == InitSession /\ config \in SessionConfigsWithLimit

NextLimit ==
  \/ ResetChat
  \/ \E h \in SessionHistories : SetHistory(h)
  \/ \E force \in BOOLEAN, n \in SummaryLens : CompressChat(force, n)
  \/ \E n \in TokenCounts : SetLastPromptTokenCount(n)
  \/ /\ client.sessionTurnCount < MaxGuardCount
     /\ \E r \in Requests, t \in GuardTurnInputs :
          SendMessage(r, "p1", t, FALSE, FullMode)
  \/ \E n \in SummaryLens, l \in BOOLEAN :
       SendStart(n, l, DEFAULT_GEMINI_MODEL, FullMode)
  \/ LoopFires(FullMode)
  \/ \E e \in StreamEventTypes : ForwardEvent(e, FullMode)
  \/ ErrorEvent(FullMode)
  \/ \E a \in NextSpeakers : StreamEnd(a, FullMode)
  \/ Continuation(FullMode)
  \/ Return

SpecLimit == InitLimit /\ [][NextLimit]_vars

\* the session with collaborators that may reject: the summarization call,
\* router.route and checkNextSpeaker either answer or reject
SummaryOutcomes == SummaryLens \cup {SummaryRejected}
RouteOutcomes == {DEFAULT_GEMINI_MODEL, RouteRejected}
NextSpeakerOutcomes == NextSpeakers \cup {ClassifierRejected}
FailureConfigs ==
  {Config(0, FALSE, TRUE, FALSE, 0),
   Config(0, FALSE, FALSE, FALSE, Undefined)}

InitFailures == InitSession /\ config \in FailureConfigs

NextFailures ==
  \/ \E force \in BOOLEAN, n \in SummaryOutcomes : CompressChat(force, n)
  \/ \E n \in TokenCounts : SetLastPromptTokenCount(n)
  \/ /\ client.sessionTurnCount < MaxSessionCount
     /\ \E r \in Requests, t \in TurnInputs :
          SendMessage(r, "p1", t, FALSE, FullMode)
  \/ \E n \in SummaryOutcomes, l \in BOOLEAN, m \in RouteOutcomes :
       SendStart(n, l, m, FullMode)
  \/ LoopFires(FullMode)
  \/ \E e \in StreamEventTypes : ForwardEvent(e, FullMode)
  \/ ErrorEvent(FullMode)
  \/ AnomalyRetry(FullMode)
  \/ AnomalyFailure(FullMode)
  \/ \E a \in NextSpeakerOutcomes : StreamEnd(a, FullMode)
  \/ Continuation(FullMode)
  \/ Return
  \/ Propagate

SpecFailures == InitFailures /\ [][NextFailures]_vars

\* the session with generateContent calls whose retries may put it into
\* fallback mode, between sendMessageStream calls of one sequence
AskedModels == {DEFAULT_GEMINI_MODEL, DEFAULT_GEMINI_FLASH_MODEL}
FallbackConfigs ==
  {Config(0, FALSE, FALSE, TRUE, 0),
   Config(0, FALSE, FALSE, TRUE, Undefined)}

\* the decisions of a router that answers the fallback model once the session
\* is in fallback mode
RoutedModels ==
  IF config.isInFallbackMode THEN {DEFAULT_GEMINI_FLASH_MODEL} ELSE AskedModels

InitFallback == InitSession /\ config \in FallbackConfigs

NextFallback ==
  \/ \E m \in AskedModels : GenerateContent(m)
  \/ \E succeeds \in BOOLEAN : Attempt(succeeds)
  \/ \E fallback \in BOOLEAN : Backoff(fallback)
  \/ /\ call.gen.pc = "idle"
     /\ \E force \in BOOLEAN, n \in SummaryLens : CompressChat(force, n)
  \/ /\ call.gen.pc = "idle"
     /\ \E n \in TokenCounts : SetLastPromptTokenCount(n)
  \/ /\ call.gen.pc = "idle"
     /\ client.sessionTurnCount < MaxSessionCount
     /\ \E r \in Requests : SendMessage(r, "p1", 1, FALSE, ChatMode)
  \/ \E n \in SummaryLens, m \in RoutedModels : SendStart(n, FALSE, m, ChatMode)
  \/ \E e \in StreamEventTypes : ForwardEvent(e, ChatMode)
  \/ ErrorEvent(ChatMode)
  \/ \E a \in NextSpeakers : StreamEnd(a, ChatMode)
  \/ Return

SpecFallback == InitFallback /\ [][NextFallback]_vars

\* ------------------------------------------- findCompressSplitPoint alone
SplitEntries ==
  {UserText(1), UserText(60), ModelText(1), ModelText(60), ModelCall,
   ModelTextCall(1), UserResponse, ModelEmpty}

RECURSIVE SeqsUpTo(_, _)
SeqsUpTo(S, n) ==
  IF n = 0 THEN {<<>>}
  ELSE LET shorter == SeqsUpTo(S, n - 1)
       IN shorter \cup {Append(s, e) : s \in {t \in shorter : Len(t) = n - 1}, e \in S}

SplitFractions == {[num |-> k, den |-> FractionDen] : k \in {0, 1, 3, 5, 7, 9, 10}}

InitSplit ==
  /\ splitContents \in SeqsUpTo(SplitEntries, MaxSplitLen) \cup {ScenarioHistory}
  /\ splitFraction \in SplitFractions
  /\ splitResult = SplitPending
  /\ client = InitialClient
  /\ config = Config(0, FALSE, FALSE, FALSE, Undefined)
  /\ userMemory = "memory"
  /\ ideContext = IdeUndefined
  /\ quotaErrorOccurred = FALSE
  /\ depth = 0
  /\ frame = IdleFrame
  /\ signalAborted = FALSE
  /\ events = <<>>
  /\ lastCompress = NoCompress
  /\ failedNonForced = FALSE
  /\ seq = [promptId |-> SessionId, routerCalls |-> 0, decision |-> NoModel]
  /\ call = [modelCalls |-> 0, anomalyRetries |-> 0, retryFailures |-> <<>>,
             streamed |-> <<>>, thrown |-> NotThrown,
             gen |-> NoGeneration, lastRequest |-> NoRequest,
             inFlight |-> 0, peak |-> 0,
             pendingToolCalls |-> FALSE, changedWhilePending |-> FALSE,
             nextSpeaker |-> NotQueried, injected |-> NotInjected,
             limitReached |-> FALSE]
  /\ MemoryIdle
  /\ CliIdle

CallSplit ==
  /\ splitResult = SplitPending
  /\ splitResult' = findCompressSplitPoint(splitContents, splitFraction)
  /\ UNCHANGED <<splitContents, splitFraction, clientVars, callVars,
                 observerVars, memoryVars, cliVars>>

NextSplit == CallSplit

SpecSplit == InitSplit /\ [][NextSplit]_vars

\* -------------------------------------------------------- /memory add alone
ArgChars == {" ", "\t", "a"}

ArgStrings == SeqsUpTo(ArgChars, MaxArgLen)

\* the outcomes of loadHierarchicalGeminiMemory
LoadOutcomes ==
  {Loaded(chars, files) : chars \in 0..2, files \in 0..1}
    \cup {LoadFailed(message) : message \in {"EACCES", "ENOENT"}}

ServiceStates ==
  {Services(NoConfig, NoLoad)} \cup {Services(HasConfig, load) : load \in LoadOutcomes}

InitMemory ==
  /\ memoryArgs \in ArgStrings
  /\ memoryResult = NotCalled
  /\ uiItems = <<>>
  /\ memoryServices \in ServiceStates
  /\ memoryLoads = 0
  /\ client = InitialClient
  /\ config = Config(0, FALSE, FALSE, FALSE, Undefined)
  /\ userMemory = "memory"
  /\ ideContext = IdeUndefined
  /\ quotaErrorOccurred = FALSE
  /\ depth = 0
  /\ frame = IdleFrame
  /\ signalAborted = FALSE
  /\ events = <<>>
  /\ lastCompress = NoCompress
  /\ failedNonForced = FALSE
  /\ seq = [promptId |-> SessionId, routerCalls |-> 0, decision |-> NoModel]
  /\ call = [modelCalls |-> 0, anomalyRetries |-> 0, retryFailures |-> <<>>,
             streamed |-> <<>>, thrown |-> NotThrown,
             gen |-> NoGeneration, lastRequest |-> NoRequest,
             inFlight |-> 0, peak |-> 0,
             pendingToolCalls |-> FALSE, changedWhilePending |-> FALSE,
             nextSpeaker |-> NotQueried, injected |-> NotInjected,
             limitReached |-> FALSE]
  /\ splitContents = <<>>
  /\ splitFraction = [num |-> FractionDen - COMPRESSION_PRESERVE_THRESHOLD,
                      den |-> FractionDen]
  /\ splitResult = SplitPending
  /\ CliIdle

\* the host runs /memory add with memoryArgs
MemoryAdd ==
  /\ memoryResult = NotCalled
  /\ memoryResult' = memoryAdd(memoryArgs).result
  /\ uiItems' = uiItems \o memoryAdd(memoryArgs).items
  /\ UNCHANGED <<memoryArgs, memoryServices, memoryLoads>>
  /\ UNCHANGED <<clientVars, callVars, observerVars, splitVars, cliVars>>

\* the host runs /memory refresh with memoryServices
MemoryRefresh ==
  /\ memoryResult = NotCalled
  /\ memoryResult' = memoryRefresh(memoryServices).result
  /\ uiItems' = uiItems \o memoryRefresh(memoryServices).items
  /\ memoryLoads' = memoryLoads + memoryRefresh(memoryServices).loads
  /\ UNCHANGED <<memoryArgs, memoryServices>>
  /\ UNCHANGED <<clientVars, callVars, observerVars, splitVars, cliVars>>

NextMemory ==
  \/ MemoryAdd
  \/ MemoryRefresh

SpecMemory == InitMemory /\ [][NextMemory]_vars

\* -------------------------------------- loadCliConfig called on its own
MaxAllowedLen == 2
ApprovalModeFlags == {"undefined", "default", "auto_edit", "yolo", "plan"}
\* allowed entries: the tools by name, the shell tool with a subcommand under
\* both of its names, the edit tool with an argument, and another tool
AllowedEntries ==
  {ShellToolName, ShellToolName \o <<"(git)">>, <<"ShellTool">> \o <<"(ls)">>,
   EditToolName, EditToolName \o <<"(x)">>, WRITE_FILE_TOOL_NAME, <<"read_file">>}
AllowedLists == SeqsUpTo(AllowedEntries, MaxAllowedLen)
SettingsAllowedLists == {Absent, <<ShellToolName>>}

InitCli ==
  /\ cliArgs \in
       {CliArgs(m, y, t, i, tty, q, pr, acp, a, sa) :
          m \in ApprovalModeFlags, y \in BOOLEAN, t \in BOOLEAN,
          i \in BOOLEAN, tty \in BOOLEAN, q \in BOOLEAN, pr \in BOOLEAN,
          acp \in BOOLEAN, a \in AllowedLists \cup {Absent},
          sa \in SettingsAllowedLists}
  /\ cliConfig = NotLoaded
  /\ MemoryIdle
  /\ client = InitialClient
  /\ config = Config(0, FALSE, FALSE, FALSE, Undefined)
  /\ userMemory = "memory"
  /\ ideContext = IdeUndefined
  /\ quotaErrorOccurred = FALSE
  /\ depth = 0
  /\ frame = IdleFrame
  /\ signalAborted = FALSE
  /\ events = <<>>
  /\ lastCompress = NoCompress
  /\ failedNonForced = FALSE
  /\ seq = [promptId |-> SessionId, routerCalls |-> 0, decision |-> NoModel]
  /\ call = [modelCalls |-> 0, anomalyRetries |-> 0, retryFailures |-> <<>>,
             streamed |-> <<>>, thrown |-> NotThrown,
             gen |-> NoGeneration, lastRequest |-> NoRequest,
             inFlight |-> 0, peak |-> 0,
             pendingToolCalls |-> FALSE, changedWhilePending |-> FALSE,
             nextSpeaker |-> NotQueried, injected |-> NotInjected,
             limitReached |-> FALSE]
  /\ splitContents = <<>>
  /\ splitFraction = [num |-> FractionDen - COMPRESSION_PRESERVE_THRESHOLD,
                      den |-> FractionDen]
  /\ splitResult = SplitPending

LoadCliConfig ==
  /\ cliConfig = NotLoaded
  /\ cliConfig' = loadCliConfig(cliArgs)
  /\ UNCHANGED <<cliArgs, clientVars, callVars, observerVars, splitVars,
                 memoryVars>>

NextCli == LoadCliConfig

SpecCli == InitCli /\ [][NextCli]_vars

\* ================================================================ properties
\* C1: for any contents array and any fraction strictly between 0 and 1,
\* findCompressSplitPoint returns 0, the array's length, or the index of a
\* user entry holding no functionResponse part; so the cut never falls
\* between a model functionCall entry and the functionResponse entry after it.
C1_SplitPointIsSafe ==
  (splitResult # SplitPending
     /\ splitFraction.num > 0 /\ splitFraction.num < splitFraction.den)
  => LET n == Len(splitContents)
         k == splitResult
     IN /\ k \in 0..n
        /\ \/ k = 0
           \/ k = n
           \/ /\ splitContents[k + 1].role = "user"
              /\ \A i \in 1..Len(splitContents[k + 1].parts) :
                   splitContents[k + 1].parts[i].kind # "functionResponse"
        /\ ~(/\ 0 < k /\ k < n
             /\ splitContents[k].role = "model"
             /\ \E i \in 1..Len(splitContents[k].parts) :
                  splitContents[k].parts[i].kind = "functionCall"
             /\ \E i \in 1..Len(splitContents[k + 1].parts) :
                  splitContents[k + 1].parts[i].kind = "functionResponse")

\* a cut strictly inside a history that holds a call and its response,
\* with the fraction tryCompressChat passes
C1_Witness ==
  /\ splitResult > 0 /\ splitResult < Len(splitContents)
  /\ splitFraction.num = FractionDen - COMPRESSION_PRESERVE_THRESHOLD
  /\ \E i \in 1..(Len(splitContents) - 1) :
       splitContents[i] = ModelCall /\ splitContents[i + 1] = UserResponse

\* C2: for every value of the turns argument, zero and negative included,
\* one top-level sendMessageStream call makes at most MAX_TURNS model calls
\* over its whole chain of nested invocations.
C2_AtMostMaxTurnsModelCalls == call.modelCalls <= MAX_TURNS

\* C3: within one sequence (the invocations sharing a promptId, nested
\* continuations and anomaly retries included) the router is asked at most
\* once, and every model call of the sequence uses the model it decided.
C3_RouterOncePerSequence ==
  /\ seq.routerCalls <= 1
  /\ frame.pc = "stream"
       => /\ seq.routerCalls = 1
          /\ seq.promptId = frame.prompt_id
          /\ frame.modelToUse = seq.decision
          /\ client.currentSequenceModel = seq.decision

\* a model call made by a nested invocation of a later top-level call of the
\* sequence, the router having been asked once
C3_Witness ==
  /\ frame.pc = "stream"
  /\ depth > 0
  /\ client.sessionTurnCount = MaxSeqCount
  /\ seq.routerCalls = 1
  /\ frame.modelToUse = DEFAULT_GEMINI_FLASH_MODEL

\* an invocation runs its entry with a promptId other than the last one seen
NewSequenceStarts ==
  /\ frame.pc = "start"
  /\ frame.prompt_id # client.lastPromptId
  /\ frame'.pc # "start"

\* C4 as stated: whenever an invocation's promptId differs from the last
\* promptId seen, the loop detector is reset, the sticky model is cleared and
\* the router is asked again for that request.
C4_NewPromptIdAlwaysRoutes ==
  [][NewSequenceStarts
       => /\ client'.loopPromptId = frame.prompt_id
          /\ client'.lastPromptId = frame.prompt_id
          /\ seq'.routerCalls = 1
          /\ client'.currentSequenceModel = seq'.decision]_vars

\* C4 amended: whenever an invocation's promptId differs from the last
\* promptId seen, the loop detector is reset for the new promptId and the
\* sticky model is cleared; the router is asked again for that request when
\* the invocation reaches its model call, and when it returns before that
\* (session-turn limit, a turn bound of zero, context-window guard, loop found
\* at the start of the turn) the router is not asked and the sticky model
\* stays cleared.
C4_NewPromptIdResetsAndRoutesIfCalled ==
  [][NewSequenceStarts
       => /\ client'.loopPromptId = frame.prompt_id
          /\ client'.lastPromptId = frame.prompt_id
          /\ IF frame'.pc = "stream"
             THEN /\ seq'.routerCalls = 1
                  /\ client'.currentSequenceModel = seq'.decision
                  /\ frame'.modelToUse = seq'.decision
             ELSE /\ seq'.routerCalls = 0
                  /\ client'.currentSequenceModel = NoModel]_vars

\* the session went from one promptId to the other and back, each change
\* followed by a model call on the router's new decision
C4_Witness ==
  /\ frame.pc = "stream"
  /\ depth = 0
  /\ client.sessionTurnCount >= 2
  /\ client.lastPromptId = "p2"
  /\ seq.promptId = "p2"
  /\ seq.routerCalls = 1
  /\ client.currentSequenceModel = DEFAULT_GEMINI_FLASH_MODEL

\* the step is a tryCompressChat call that made its summarization call
Summarized == lastCompress'.summarized

C6_FailureLatchHoldsUntilReset ==
  failedNonForced
  => \A n \in SummaryLens :
       LET r == tryCompressChat(client, FALSE, n)
       IN r.info.compressionStatus = NOOP /\ ~r.summarized

\* C7: with an empty curated history (forced or not), and with a recorded
\* failure on a non-forced call, tryCompressChat returns NOOP, makes no
\* summarization call and changes nothing of the client, so repeating the
\* call gives the same result each time.
C7_ShortCircuitChangesNothing ==
  \A force \in BOOLEAN, n \in SummaryLens :
    LET r == tryCompressChat(client, force, n)
    IN ((\A i \in 1..Len(client.history) :
           client.history[i].role = "model" /\ client.history[i].parts = <<>>)
        \/ (client.hasFailedCompressionAttempt /\ ~force))
       => /\ r.info.compressionStatus = NOOP
          /\ ~r.summarized
          /\ r.client = client
          /\ tryCompressChat(r.client, force, n) = r

\* a non-forced compression of a non-empty history was answered NOOP with no
\* summarization call while the failure is recorded, the recorded count
\* being above the threshold
C7_Witness ==
  /\ client.hasFailedCompressionAttempt
  /\ lastCompress.info.compressionStatus = NOOP
  /\ ~lastCompress.force
  /\ ~lastCompress.summarized
  /\ Len(Curated(client.history)) > 1
  /\ client.lastPromptTokenCount * FractionDen
       >= CompressionThreshold * tokenLimit(DEFAULT_GEMINI_MODEL)

\* C8: in the chat history every user entry holding a functionResponse part
\* comes immediately after a model entry holding a functionCall part; editor
\* context injection, the rebuild of a compression and addDirectoryContext
\* all keep it so.
C8_ResponseFollowsItsCall ==
  \A i \in 1..Len(client.history) :
    (client.history[i].role = "user" /\ HasFunctionResponse(client.history[i]))
    => /\ i > 1
       /\ client.history[i - 1].role = "model"
       /\ HasFunctionCall(client.history[i - 1])

\* the model stream of an anomaly retry yields InvalidStream to the caller,
\* continue-on-failed-call being enabled
RetryYieldsInvalidStream ==
  /\ frame.pc = "stream"
  /\ frame.isInvalidStreamRetry
  /\ config.continueOnFailedApiCall
  /\ events' = Append(events, Event("InvalidStream", 0, 0))

\* C9: with continue-on-failed-call enabled, an InvalidStream event in the
\* anomaly retry started for an earlier InvalidStream ends the chain: no
\* further invocation is started, the retry-failure log is written exactly
\* once and with attempt count 4, and nothing but returns follows it.
C9_SecondInvalidStreamEndsChain ==
  /\ [][RetryYieldsInvalidStream
          => /\ depth' = depth
             /\ frame'.pc = "done"
             /\ call.retryFailures = <<>>
             /\ call'.retryFailures = <<4>>]_vars
  /\ [](call.retryFailures # <<>>
          => /\ call.retryFailures = <<4>>
             /\ frame.pc \in {"done", "idle"})

\* the retry's own InvalidStream has been yielded right after the first one
\* and logged, the retry being the invocation that is about to return
C9_Witness ==
  /\ call.retryFailures = <<4>>
  /\ call.anomalyRetries = 1
  /\ depth = 1
  /\ frame.pc = "done"
  /\ frame.isInvalidStreamRetry
  /\ Len(events) = 2
  /\ events[1].type = "InvalidStream"
  /\ events[2].type = "InvalidStream"

\* an invocation starts a nested one
StartsNested == depth' = depth + 1

\* C10 as stated: at most one anomaly retry is started for one top-level
\* sendMessageStream call, continuations after the retry included.
C10_AtMostOneAnomalyRetry == call.anomalyRetries <= 1

\* C10 amended: an invocation started as an anomaly retry never starts an
\* anomaly retry itself; a next-speaker continuation is started without the
\* marker, also by a retry, so an InvalidStream event in a continuation that
\* follows a retry starts one more anomaly retry.
C10_OneRetryPerUnmarkedInvocation ==
  [][StartsNested
       => IF frame'.request = SystemContinueRequest
          THEN /\ frame'.isInvalidStreamRetry
               /\ ~frame.isInvalidStreamRetry
               /\ events' = Append(events, Event("InvalidStream", 0, 0))
          ELSE /\ frame'.request = ContinueRequest
               /\ ~frame'.isInvalidStreamRetry
               /\ events' = events]_vars

\* the second anomaly retry of one call runs its model call: it was started by
\* the continuation of the first retry
C10_Witness ==
  /\ call.anomalyRetries = 2
  /\ depth = 3
  /\ frame.isInvalidStreamRetry
  /\ frame.pc = "stream"
  /\ call.retryFailures = <<>>

\* an invocation runs from its entry to turn.run(..) or to an early return
EntryStep == frame.pc = "start" /\ frame'.pc # "start"

\* the step yields an event of this type to the caller
Emits(type) ==
  \E i \in (Len(events) + 1)..Len(events') : events'[i].type = type

\* the request's estimate exceeds 95% of what is left of the context window
EstimateExceedsBudget ==
  (frame.request.chars \div 4) * 100
    > (tokenLimit(DEFAULT_GEMINI_MODEL) - client.lastPromptTokenCount) * 95

\* the invocation gets past the session-turn limit and the turn bound
ReachesOverflowGuard ==
  /\ ~(config.maxSessionTurns > 0
         /\ client.sessionTurnCount + 1 > config.maxSessionTurns)
  /\ frame.turns # 0

\* the overflow event is the only event of the invocation, and the invocation
\* compresses nothing, leaves the history alone, asks no router and calls no
\* model
OverflowStopsInvocation ==
  /\ events' = Append(events,
                      Event("ContextWindowWillOverflow",
                            frame.request.chars \div 4,
                            tokenLimit(DEFAULT_GEMINI_MODEL)
                              - client.lastPromptTokenCount))
  /\ frame'.pc = "done"
  /\ lastCompress' = NoCompress
  /\ client'.history = client.history
  /\ client'.lastPromptTokenCount = client.lastPromptTokenCount
  /\ seq'.routerCalls <= seq.routerCalls
  /\ client'.currentSequenceModel \in {client.currentSequenceModel, NoModel}
  /\ call'.modelCalls = call.modelCalls

\* C11 as stated: an invocation emits ContextWindowWillOverflow exactly when
\* floor(request length / 4) > 0.95 * (token limit - last prompt token count),
\* and then it is the invocation's only event, with no compression, history
\* mutation, routing or model call.
C11_OverflowExactlyWhenOverBudget ==
  [][EntryStep
       => /\ Emits("ContextWindowWillOverflow") <=> EstimateExceedsBudget
          /\ Emits("ContextWindowWillOverflow") => OverflowStopsInvocation]_vars

\* C11 amended: an invocation that is within the session-turn limit and has
\* a turn bound other than 0 emits ContextWindowWillOverflow exactly when
\* floor(request length / 4) > 0.95 * (token limit - last prompt token count),
\* strictly: estimate 9500 with 10000 remaining emits none, 9501 does; an
\* invocation stopped by the session-turn limit or by a turn bound of 0 emits
\* none. When emitted it is the invocation's only event, with no compression,
\* history mutation, routing or model call.
C11_OverflowWhenGuardReached ==
  [][EntryStep
       => /\ Emits("ContextWindowWillOverflow")
               <=> (ReachesOverflowGuard /\ EstimateExceedsBudget)
          /\ Emits("ContextWindowWillOverflow") => OverflowStopsInvocation
          /\ (/\ frame.request.chars \div 4 = 9500
              /\ tokenLimit(DEFAULT_GEMINI_MODEL) - client.lastPromptTokenCount
                   = 10000)
             => ~Emits("ContextWindowWillOverflow")]_vars

\* the overflow event for an estimate of 9501 with 10000 tokens remaining
C11_Witness ==
  /\ frame.pc = "done"
  /\ Len(events) = 1
  /\ events[1] = Event("ContextWindowWillOverflow", 9501, 10000)

\* the configured maximum is positive and the incremented counter exceeds it
ExceedsSessionTurns ==
  /\ config.maxSessionTurns > 0
  /\ client.sessionTurnCount + 1 > config.maxSessionTurns

\* C12: every invocation, top-level or nested, increments the session turn
\* counter by exactly one (and nothing else changes it); it emits
\* MaxSessionTurns exactly when the configured maximum is positive and the
\* incremented counter exceeds it, and then that is its only event and it
\* compresses nothing, asks no router and calls no model; with a maximum of
\* 0 or less MaxSessionTurns is never emitted.
C12_EveryInvocationCountsOnce ==
  [][IF EntryStep
     THEN /\ client'.sessionTurnCount = client.sessionTurnCount + 1
          /\ Emits("MaxSessionTurns") <=> ExceedsSessionTurns
          /\ Emits("MaxSessionTurns")
               => /\ events' = Append(events, Event("MaxSessionTurns", 0, 0))
                  /\ frame'.pc = "done"
                  /\ lastCompress' = NoCompress
                  /\ client'.history = client.history
                  /\ seq'.routerCalls <= seq.routerCalls
                  /\ client'.currentSequenceModel
                       \in {client.currentSequenceModel, NoModel}
                  /\ call'.modelCalls = call.modelCalls
          /\ config.maxSessionTurns <= 0 => ~Emits("MaxSessionTurns")
     ELSE /\ client'.sessionTurnCount = client.sessionTurnCount
          /\ ~Emits("MaxSessionTurns")]_vars

\* a nested invocation, the second of the session, stopped by a maximum of 1
\* right after the model reply of the first
C12_Witness ==
  /\ config.maxSessionTurns = 1
  /\ client.sessionTurnCount = 2
  /\ depth = 1
  /\ frame.pc = "done"
  /\ frame.request = ContinueRequest
  /\ events # <<>>
  /\ events[Len(events)] = Event("MaxSessionTurns", 0, 0)
  /\ call.modelCalls = 1

\* an event of the flattened stream that came out of a model stream
IsStreamEvent(e) == e.type \in StreamEventTypes

NotFired(p) == ~p.fired

TypesOf(log) == [i \in 1..Len(log) |-> log[i].type]

\* C13: the events a top-level sendMessage has yielded so far are, in order,
\* the events the streams of the chain produced, each exactly once, without
\* the event on which the loop detector fired; and the events of a chain
\* level all come before the events of the call nested in it
C13_EventsAreInOrderConcatenation ==
  /\ TypesOf(SelectSeq(events, IsStreamEvent)) = TypesOf(SelectSeq(call.streamed, NotFired))
  /\ \A i, j \in 1..Len(call.streamed) :
       i < j => call.streamed[i].level <= call.streamed[j].level

\* a level streamed two events and recursed, and the detector fired on the
\* second event of the nested call
C13_Witness ==
  /\ Len(call.streamed) = 4
  /\ call.streamed[1] = [type |-> "Content", level |-> 0, fired |-> FALSE]
  /\ call.streamed[2] = [type |-> "InvalidStream", level |-> 0, fired |-> FALSE]
  /\ call.streamed[3] = [type |-> "ToolCallRequest", level |-> 1, fired |-> FALSE]
  /\ call.streamed[4] = [type |-> "Content", level |-> 1, fired |-> TRUE]
  /\ TypesOf(events) = <<"Content", "InvalidStream", "ToolCallRequest", "LoopDetected">>

\* the events after which sendMessageStream returns at once
TerminalEventTypes == {"MaxSessionTurns", "ContextWindowWillOverflow", "LoopDetected", "Error"}

\* the last event yielded so far by the running top-level call is terminal
EndedByTerminalEvent == Len(events) > 0 /\ events[Len(events)].type \in TerminalEventTypes

C15_CollaboratorFailureNeverThrows ==
  call.thrown \notin {ThrownByRouter, ThrownByClassifier}

\* C16: neither tryCompressChat nor a sendMessage that called it ends with an
\* exception caused by the summarization call
C16_CompressionNeverThrows == call.thrown # ThrownBySummarization

\* C17: a request dispatched while the session is in fallback mode, by an
\* attempt of generateContent or by the summarization call of a compression,
\* names the fallback model
C17_FallbackModelOnEveryRequest ==
  call.lastRequest.inFallback => call.lastRequest.model = DEFAULT_GEMINI_FLASH_MODEL

ScenarioSplit == splitContents = ScenarioHistory /\ splitResult # SplitPending

CompressFraction == [num |-> FractionDen - COMPRESSION_PRESERVE_THRESHOLD, den |-> FractionDen]

\* the weight before entry k (zero-based) reaches the fraction of the total
ReachesTarget(contents, fraction, k) ==
  TotalChars(SubSeq(contents, 1, k)) * fraction.den >= TotalChars(contents) * fraction.num

\* C19 as stated: for the scenario history and fraction 0.7 the result is
\* the index of a user entry without functionResponse whose prior weight
\* reaches 70% of the total, and it is not 4
C19_SplitAtEntryReachingTarget ==
  (ScenarioSplit /\ splitFraction = CompressFraction) =>
     /\ splitResult \in 0..(Len(splitContents) - 1)
     /\ IsSplitCandidate(splitContents[splitResult + 1])
     /\ ReachesTarget(splitContents, splitFraction, splitResult)
     /\ splitResult # 4

\* C19: for the scenario history the result is never 4; with fraction 0.7 no
\* user entry without functionResponse has a prior weight of 70% of the
\* total, and the result is the length of the history, 6
C19_ScenarioCompressesEverything ==
  ScenarioSplit =>
     /\ splitResult # 4
     /\ splitFraction = CompressFraction =>
          /\ splitResult = Len(splitContents)
          /\ \A k \in 0..(Len(splitContents) - 1) :
               IsSplitCandidate(splitContents[k + 1])
                 => ~ReachesTarget(splitContents, splitFraction, k)

\* findCompressSplitPoint has returned for the scenario history and 0.7
C19_Witness ==
  /\ ScenarioSplit
  /\ splitFraction = CompressFraction
  /\ splitResult = 6

\* the positions of args that hold a character other than whitespace
Inked(args) == {i \in 1..Len(args) : args[i] \notin Whitespace}

\* args between its first and its last character that is not whitespace
Trimmed(args) ==
  SubSeq(args, CHOOSE i \in Inked(args) : \A j \in Inked(args) : i <= j,
               CHOOSE i \in Inked(args) : \A j \in Inked(args) : i >= j)

\* C20: /memory add with empty or whitespace-only arguments returns the
\* usage error and adds no item; with any other argument it adds exactly one
\* info item and returns the save_memory tool action whose fact is the
\* argument without its surrounding whitespace
C20_MemoryAddTrimsOrRejects ==
  memoryResult.type \in {"message", "tool"} =>
    IF Inked(memoryArgs) = {}
    THEN memoryResult = UsageError /\ uiItems = <<>>
    ELSE /\ Len(uiItems) = 1
         /\ uiItems[1].type = "info"
         /\ memoryResult.type = "tool"
         /\ memoryResult.toolName = "save_memory"
         /\ memoryResult.toolArgs.fact = Trimmed(memoryArgs)

\* an argument with whitespace on both sides of its text has been saved
C20_Witness ==
  /\ memoryArgs = <<" ", "a", "a", "\t">>
  /\ memoryResult = ToolAction(<<"a", "a">>)
  /\ uiItems = <<InfoItem(<<"a", "a">>)>>

ValidCandidates(contents) ==
  {k \in 0..(Len(contents) - 1) :
     /\ contents[k + 1].role = "user"
     /\ \A i \in 1..Len(contents[k + 1].parts) :
          contents[k + 1].parts[i].kind # "functionResponse"}

\* the weight of the entries strictly before index k
WeightBefore(contents, k) == TotalChars(SubSeq(contents, 1, k))

\* the reference: the first valid candidate whose prior weight is at least
\* total * fraction; else the length when the final entry is model-authored
\* with no functionCall part; else the last valid candidate, or 0
ReferenceSplit(contents, fraction) ==
  LET n == Len(contents)
      valid == ValidCandidates(contents)
      reaching == {k \in valid : ReachesTarget(contents, fraction, k)}
  IN IF reaching # {}
     THEN CHOOSE k \in reaching : \A j \in reaching : k <= j
     ELSE IF /\ n > 0
             /\ contents[n].role = "model"
             /\ \A i \in 1..Len(contents[n].parts) : contents[n].parts[i].kind # "functionCall"
          THEN n
          ELSE IF valid = {}
               THEN 0
               ELSE CHOOSE k \in valid : \A j \in valid : k >= j

\* C22: for every history and every fraction strictly between 0 and 1,
\* findCompressSplitPoint returns what the reference returns: the first valid
\* candidate reaching the target, else the length for a final model entry
\* without a functionCall part, else the last valid candidate or 0
C22_SplitPointEqualsReference ==
  (splitResult # SplitPending
     /\ splitFraction.num > 0 /\ splitFraction.num < splitFraction.den)
  => splitResult = ReferenceSplit(splitContents, splitFraction)

\* no candidate reaches the target and the history ends with a model
\* functionCall entry, so the call fell back to a last candidate after index 0
C22_Witness ==
  /\ splitResult # SplitPending
  /\ splitFraction.num > 0 /\ splitFraction.num < splitFraction.den
  /\ splitContents # <<>>
  /\ splitContents[Len(splitContents)] = ModelCall
  /\ \A k \in ValidCandidates(splitContents) : ~ReachesTarget(splitContents, splitFraction, k)
  /\ splitResult > 0
  /\ splitResult \in ValidCandidates(splitContents)

\* the step is a tryCompressChat call that returned
Compresses == lastCompress'.info.compressionStatus # NoCompress.info.compressionStatus

\* the recorded count is under threshold * tokenLimit, the threshold being
\* the configured value, or 0.7 when none is configured
UnderThreshold ==
  client.lastPromptTokenCount * FractionDen
    < (IF config.contextPercentageThreshold = Undefined
       THEN COMPRESSION_TOKEN_THRESHOLD
       ELSE config.contextPercentageThreshold) * tokenLimit(lastCompress'.model)

\* C23: a non-forced compress of a non-empty history with no recorded
\* failure whose recorded count is under threshold * token limit returns NOOP
\* with both counts equal to the recorded count, makes no summarization call
\* and leaves the client as it was; a forced compress is not held back by the
\* count; any compress whose split point is 0 returns NOOP without a
\* summarization call
C23_UnderThresholdIsNoop ==
  [][Compresses
       => /\ (/\ ~lastCompress'.force
               /\ Curated(client.history) # <<>>
               /\ ~client.hasFailedCompressionAttempt
               /\ UnderThreshold)
              => /\ lastCompress'.info
                      = CompressionInfo(client.lastPromptTokenCount,
                                        client.lastPromptTokenCount, NOOP)
                 /\ ~lastCompress'.summarized
                 /\ client' = client
          /\ (lastCompress'.force /\ UnderThreshold
                 /\ findCompressSplitPoint(Curated(client.history), CompressFraction) > 0)
              => lastCompress'.summarized
          /\ findCompressSplitPoint(Curated(client.history), CompressFraction) = 0
              => /\ lastCompress'.info.compressionStatus = NOOP
                 /\ ~lastCompress'.summarized]_vars

\* a non-forced compress was answered NOOP because the recorded count is one
\* token under half the window, the configured threshold being 0.5
C23_Witness ==
  /\ lastCompress.info.compressionStatus = NOOP
  /\ ~lastCompress.force
  /\ ~client.hasFailedCompressionAttempt
  /\ config.contextPercentageThreshold = 5
  /\ client.lastPromptTokenCount = tokenLimit(lastCompress.model) \div 2 - 1
  /\ lastCompress.info.newTokenCount = client.lastPromptTokenCount
  /\ findCompressSplitPoint(Curated(client.history), CompressFraction) > 0

\* the entries of the curated history from the split point onward
RetainedTail(history) ==
  SubSeq(Curated(history),
         findCompressSplitPoint(Curated(history), CompressFraction) + 1,
         Len(Curated(history)))

\* C24: whenever tryCompressChat returns COMPRESSED, the chat's history is
\* the handshake turn, a user turn carrying the summary, the model
\* acknowledgement turn, and then exactly the entries of the prior curated
\* history from the split point onward, in order and unmodified; and the
\* recorded prompt token count equals the returned newTokenCount
C24_CompressedHistoryShape ==
  [][(Compresses /\ lastCompress'.info.compressionStatus = COMPRESSED)
       => /\ \E n \in SummaryLens :
               client'.history
                 = <<Handshake, UserText(n), Acknowledgement>> \o RetainedTail(client.history)
          /\ client'.lastPromptTokenCount = lastCompress'.info.newTokenCount]_vars

\* a compression was adopted that kept a tail ending in a functionCall entry
C24_Witness ==
  /\ lastCompress.info.compressionStatus = COMPRESSED
  /\ Len(client.history) > 4
  /\ client.history[1] = Handshake
  /\ client.history[3] = Acknowledgement
  /\ client.history[Len(client.history)] = ModelCall
  /\ client.lastPromptTokenCount = lastCompress.info.newTokenCount

\* C25: hasFailedCompressionAttempt goes from clear to set only in a step
\* that is a non-forced tryCompressChat returning
\* COMPRESSION_FAILED_INFLATED_TOKEN_COUNT; no forced call and no call
\* returning NOOP or COMPRESSED sets it
C25_FlagSetOnlyByNonForcedFailure ==
  [][(~client.hasFailedCompressionAttempt /\ client'.hasFailedCompressionAttempt)
       => /\ ~lastCompress'.force
          /\ lastCompress'.info.compressionStatus
               = COMPRESSION_FAILED_INFLATED_TOKEN_COUNT]_vars

\* a non-forced compression has just failed and set the flag
C25_Witness ==
  /\ client.hasFailedCompressionAttempt
  /\ ~lastCompress.force
  /\ lastCompress.info.compressionStatus = COMPRESSION_FAILED_INFLATED_TOKEN_COUNT
  /\ lastCompress.info.newTokenCount > lastCompress.info.originalTokenCount

\* C26: a pinned sticky model changes only in a step in which a
\* sendMessageStream invocation runs its entry with a promptId other than
\* the last one seen; resetChat, setHistory, addHistory, tryCompressChat
\* (forced or not, whatever it returns) and invocations with the same
\* promptId leave it as it is
C26_StickyModelClearedOnlyByNewPromptId ==
  [][(client.currentSequenceModel # NoModel
        /\ client'.currentSequenceModel # client.currentSequenceModel)
       => NewSequenceStarts]_vars

\* the host has compressed the chat between two calls while a model other
\* than the default is pinned, and the pin is still there
C26_Witness ==
  /\ Idle
  /\ client.currentSequenceModel = DEFAULT_GEMINI_FLASH_MODEL
  /\ client.sessionTurnCount > 0
  /\ lastCompress.force
  /\ lastCompress.info.compressionStatus = COMPRESSED

\* the last entry is model-authored and holds a functionCall part
EndsWithFunctionCall(history) ==
  /\ history # <<>>
  /\ history[Len(history)].role = "model"
  /\ \E i \in 1..Len(history[Len(history)].parts) :
       history[Len(history)].parts[i].kind = "functionCall"

\* an invocation runs from its entry while the history ends with a
\* functionCall entry
EntersWithPendingCall ==
  /\ frame.pc = "start"
  /\ frame'.pc # "start"
  /\ EndsWithFunctionCall(client.history)

\* the history the step leaves is the one the compression left, followed by
\* the request when the invocation reached its model call: no editor-context
\* entry in between
NoContextEntryAppended ==
  \E base \in {IF lastCompress'.info.compressionStatus = COMPRESSED
                THEN SubSeq(client'.history, 1, 3) \o RetainedTail(client.history)
                ELSE client.history} :
    client'.history = IF frame'.pc = "stream"
                      THEN Append(base, RequestContent(frame.request))
                      ELSE base

\* C27 as stated: an invocation that starts while the last history entry is
\* a model functionCall entry appends no editor-context entry and leaves
\* lastSentIdeContext and forceFullIdeContext as they were
C27_PendingCallLeavesContextState ==
  [][EntersWithPendingCall
       => /\ NoContextEntryAppended
          /\ client'.lastSentIdeContext = client.lastSentIdeContext
          /\ client'.forceFullIdeContext = client.forceFullIdeContext]_vars

\* C27 amended: an invocation that starts while the last history entry is a
\* model functionCall entry appends no editor-context entry and leaves
\* lastSentIdeContext as it was; forceFullIdeContext is as it was unless the
\* compression of that invocation made its summarization call, which sets
\* it to true
C27_PendingCallSkipsInjection ==
  [][EntersWithPendingCall
       => /\ NoContextEntryAppended
          /\ client'.lastSentIdeContext = client.lastSentIdeContext
          /\ client'.forceFullIdeContext
               = (client.forceFullIdeContext \/ lastCompress'.summarized)]_vars

\* with editor mode on, a function response was sent while the editor state
\* differs from the snapshot last sent, and no context entry stands between
\* the functionCall entry and the response
C27_Witness ==
  /\ frame.pc = "stream"
  /\ config.ideMode
  /\ frame.request.kind = "functionResponse"
  /\ ideContext.defined
  /\ client.lastSentIdeContext.defined
  /\ ideContext # client.lastSentIdeContext
  /\ Len(client.history) > 1
  /\ EndsWithFunctionCall(SubSeq(client.history, 1, Len(client.history) - 1))

\* an invocation passes its compression and reaches the context injection
\* with editor mode on and no pending tool call
InjectionStep ==
  /\ frame.pc = "start"
  /\ lastCompress'.info.compressionStatus # NoCompress.info.compressionStatus
  /\ config.ideMode
  /\ ~EndsWithFunctionCall(client.history)

\* the step appended an editor-context entry in front of the request
ContextEntryAppended == ~NoContextEntryAppended

\* C28: when the editor state changed while a tool call was pending, the
\* first later invocation that reaches the context injection with editor
\* mode on and no pending tool call appends a context entry whenever the
\* current editor state differs from the snapshot last sent
C28_DeferredChangeIsReported ==
  [][(InjectionStep /\ call.changedWhilePending
        /\ ideContext # client.lastSentIdeContext)
       => ContextEntryAppended]_vars

\* C29: when loopDetector.turnStarted answers that the sequence is flagged,
\* the invocation yields LoopDetected as its last event and returns: the
\* router is not asked and turn.run is not called in that invocation
C29_LoopAtTurnStartStops ==
  [][(frame.pc = "start" /\ frame'.loopAtStart)
       => /\ frame'.pc = "done"
          /\ Len(events') > Len(events)
          /\ events'[Len(events')].type = "LoopDetected"
          /\ \A i \in (Len(events) + 1)..(Len(events') - 1) :
               events'[i].type = "ChatCompressed"
          /\ seq'.routerCalls = (IF seq.promptId = frame.prompt_id
                                 THEN seq.routerCalls ELSE 0)
          /\ call'.modelCalls = call.modelCalls
          /\ call'.inFlight = 0]_vars

\* the detector answered at the start of a nested invocation of a new
\* sequence's call: the chain made its one model call at the top level and
\* asked the router once
C29_Witness ==
  /\ frame.loopAtStart
  /\ frame.pc = "done"
  /\ depth > 0
  /\ events # <<>>
  /\ events[Len(events)].type = "LoopDetected"
  /\ seq.routerCalls = 1
  /\ call.modelCalls = 1

\* an event of the flattened stream that stands for an event of a model
\* stream: the event itself, or the LoopDetected yielded in its place
StandsForStreamEvent(e) == e.type \in StreamEventTypes \cup {"LoopDetected"}

\* the detector has fired on an event of the running call
DetectorFired == \E i \in 1..Len(call.streamed) : call.streamed[i].fired

\* the step gives an event to the detector and the detector fires
FiresNow ==
  /\ Len(call'.streamed) = Len(call.streamed) + 1
  /\ call'.streamed[Len(call'.streamed)].fired

\* C30: every event of a model stream passes the loop detector; an event it
\* does not fire on is forwarded as it is, and an event it fires on is not
\* forwarded, LoopDetected being yielded in its place; the firing step
\* aborts the invocation's own controller, leaves the caller's signal as it
\* is and ends the invocation; and after it the call yields no further
\* event, makes no model call, no anomaly retry and no continuation
C30_DetectorSeesEveryEvent ==
  /\ [](\E yielded \in {TypesOf(SelectSeq(events, StandsForStreamEvent))} :
          /\ Len(yielded) \in {Len(call.streamed), Len(call.streamed) + 1}
          /\ \A i \in 1..Len(call.streamed) :
               yielded[i] = IF call.streamed[i].fired
                            THEN "LoopDetected"
                            ELSE call.streamed[i].type
          /\ Len(yielded) > Len(call.streamed)
               => yielded[Len(yielded)] = "LoopDetected" /\ ~DetectorFired)
  /\ [][FiresNow
          => /\ frame'.controllerAborted
             /\ signalAborted' = signalAborted
             /\ frame'.pc = "done"
             /\ depth' = depth]_vars
  /\ [][(DetectorFired /\ call'.streamed # <<>>)
          => /\ events' = events
             /\ call'.streamed = call.streamed
             /\ call'.modelCalls = call.modelCalls
             /\ call'.anomalyRetries = call.anomalyRetries
             /\ depth' <= depth]_vars

\* the detector fired on the first event of a top-level stream: the caller
\* received LoopDetected alone, the controller is aborted and the caller's
\* signal is not
C30_Witness ==
  /\ call.streamed = <<[type |-> "ToolCallRequest", level |-> 0, fired |-> TRUE]>>
  /\ TypesOf(events) = <<"LoopDetected">>
  /\ frame.pc = "done"
  /\ frame.controllerAborted
  /\ ~signalAborted

\* ------------------------------------------------------------------- C31
\* the continuation call of this step: sendMessageStream('Please continue.')
\* with the prompt id of the invocation, one turn less and no anomaly marker
ContinuationMade ==
  /\ frame.pc = "stream"
  /\ depth' = depth + 1
  /\ frame' = NewFrame(ContinueRequest, frame.prompt_id,
                       frame.boundedTurns - 1, FALSE)

\* the first four conditions of the next-speaker check, on the state in which
\* the stream is exhausted
MayAskNextSpeaker ==
  /\ ~frame.pendingToolCalls
  /\ ~signalAborted
  /\ ~quotaErrorOccurred
  /\ ~config.skipNextSpeakerCheck

\* C31: an invocation whose stream is exhausted makes the continuation call
\* ('Please continue.', same prompt id, one turn less, anomaly marker false)
\* exactly when it has no pending tool call, the caller's signal is not
\* aborted, no quota error occurred, the next-speaker check is not disabled
\* and the classifier answers 'model'; the classifier is not asked when one
\* of the first four conditions fails
C31_ContinuationIffModelIsNextSpeaker ==
  [][/\ ContinuationMade
        <=> (/\ frame.pc = "stream"
             /\ MayAskNextSpeaker
             /\ call'.nextSpeaker = "model")
     /\ (frame.pc = "stream" /\ ~MayAskNextSpeaker)
          => call'.nextSpeaker = NotQueried]_vars

\* a continuation runs its stream, and an invocation ended its stream without
\* asking the classifier after a quota error
C31_Witness ==
  \/ /\ depth > 0
     /\ frame.pc = "stream"
     /\ frame.request = ContinueRequest
     /\ ~frame.isInvalidStreamRetry
  \/ /\ frame.pc = "done"
     /\ quotaErrorOccurred
     /\ ~signalAborted
     /\ ~config.skipNextSpeakerCheck
     /\ ~frame.pendingToolCalls
     /\ frame.consumed > 0
     /\ call.nextSpeaker = NotQueried


\* ------------------------------------------------------------------- C32
\* the events yielded by the step
NewEvents == SubSeq(events', Len(events) + 1, Len(events'))

IsChatCompressed(e) == e.type = "ChatCompressed"

\* C32: an invocation yields a ChatCompressed event exactly when its own
\* non-forced compression returned COMPRESSED; the event carries the original
\* and the new token count of that compression and is the first event the
\* invocation yields, so it precedes every event of the invocation's model
\* call; no other step yields one
C32_ChatCompressedIffCompressed ==
  [][IF frame.pc = "start" /\ frame'.pc # "start"
     THEN /\ Len(events') >= Len(events)
          /\ Len(SelectSeq(NewEvents, IsChatCompressed))
               = (IF lastCompress'.info.compressionStatus = COMPRESSED
                     /\ ~lastCompress'.force
                  THEN 1 ELSE 0)
          /\ lastCompress'.info.compressionStatus = COMPRESSED =>
               /\ NewEvents[1]
                    = Event("ChatCompressed",
                            lastCompress'.info.originalTokenCount,
                            lastCompress'.info.newTokenCount)
               /\ \A i \in 1..Len(NewEvents) : ~IsStreamEvent(NewEvents[i])
     ELSE Len(events') > Len(events) =>
            SelectSeq(NewEvents, IsChatCompressed) = <<>>]_vars

\* the model call of an invocation that compressed streamed an event, after
\* the ChatCompressed event
C32_Witness ==
  /\ frame.pc = "stream"
  /\ frame.consumed > 0
  /\ \E i \in 1..Len(events) :
       /\ IsChatCompressed(events[i])
       /\ events[i].value[2] < events[i].value[1]
       /\ i < Len(events)
       /\ IsStreamEvent(events[Len(events)])


\* ------------------------------------------------------------------- C33
\* the invocation goes from its entry to its model call
MakesModelCall == frame.pc = "start" /\ frame'.pc = "stream"

\* C33: at every model call made by sendMessage the system instruction of the
\* live chat is the one computed from the current user memory, also after a
\* compression attempt that rebuilt a chat and then failed
C33_InstructionFollowsUserMemory ==
  [][MakesModelCall => client'.chatMemory = userMemory']_vars


\* ------------------------------------------------------------------- C34
\* C34: when an invocation reaches the context injection with the editor
\* state of the last injection round, and no resetChat, setHistory or
\* compression that rebuilt a chat came in between, it appends no
\* editor-context entry: the delta is empty
C34_InjectionIsIdempotent ==
  [][(InjectionStep /\ ~lastCompress'.summarized
        /\ call.injected = InjectedState(ideContext))
       => /\ NoContextEntryAppended
          /\ getIdeContextParts(client, client.forceFullIdeContext
                                          \/ Len(client.history) = 0).keys = {}
          /\ client'.lastSentIdeContext = ideContext]_vars

\* a second injection round ran with the editor state of the first, which
\* had sent the active file
C34_Witness ==
  /\ frame.pc = "stream"
  /\ config.ideMode
  /\ ideContext.defined
  /\ call.injected = InjectedState(ideContext)
  /\ client.sessionTurnCount >= 2
  /\ frame.request.kind = "text"
  /\ \E i \in 1..Len(client.history) :
       /\ client.history[i] = UserText(ContextChars(FullContextKeys(ideContext)))
       /\ i + 2 < Len(client.history)
       /\ client.history[Len(client.history)] = RequestContent(frame.request)
       /\ client.history[Len(client.history) - 1].role = "model"


\* ------------------------------------------------------------------- C35
\* what the injection of this step computes from the snapshot last sent and
\* the current editor state
ComputedContext ==
  getIdeContextParts(client, client.forceFullIdeContext \/ Len(client.history) = 0)

\* the injection runs in delta mode and the active file is the one of the
\* snapshot last sent
DeltaOnSameActiveFile ==
  /\ InjectionStep
  /\ ~lastCompress'.summarized
  /\ ComputedContext.mode = "delta"
  /\ FindActive(ideContext.openFiles) # NoFile
  /\ FindActive(client.lastSentIdeContext.openFiles) # NoFile
  /\ FindActive(ideContext.openFiles).path
       = FindActive(client.lastSentIdeContext.openFiles).path

\* C35: in delta mode with the active file's path unchanged, a cursor-moved
\* change is computed exactly when the cursor of the active file differs from
\* the one of the snapshot last sent: another line or character, a cursor
\* that appeared, or a cursor that disappeared
C35_CursorMovedIffCursorDiffers ==
  [][DeltaOnSameActiveFile
       => ("cursorMoved" \in ComputedContext.keys
             <=> FindActive(ideContext.openFiles).cursor
                   # FindActive(client.lastSentIdeContext.openFiles).cursor)]_vars


\* ------------------------------------------------------------------- C36
\* no injection round has run since the chat was started, reset, replaced by
\* setHistory or rebuilt by a compression attempt, the one of this step included
ForcedSinceLastRound == call.injected = NotInjected \/ lastCompress'.summarized

\* C36: the first injection after startChat, resetChat, setHistory or a
\* compression attempt that rebuilt a chat runs in full mode, so it sends the
\* editor context whenever there is a file to report; every injection round
\* clears forceFullIdeContext and records the current editor state as
\* lastSentIdeContext; the later rounds run in delta mode as long as a
\* snapshot exists and the history is not empty
C36_FullModeAfterRebuildThenDelta ==
  [][InjectionStep
       => /\ ~client'.forceFullIdeContext
          /\ client'.lastSentIdeContext = ideContext
          /\ (ForcedSinceLastRound /\ ideContext.defined)
               => /\ FullContextKeys(ideContext) # {} => ContextEntryAppended
                  /\ ~lastCompress'.summarized => ComputedContext.mode = "full"
          /\ (~ForcedSinceLastRound /\ ideContext.defined
                /\ call.injected.state.defined /\ Len(client.history) > 0)
               => ComputedContext.mode = "delta"]_vars

\* the host replaced the history after a round had sent the editor state,
\* and the next round sent the unchanged state again, in full
C36_Witness ==
  /\ frame.pc = "stream"
  /\ config.ideMode
  /\ ideContext.defined
  /\ call.injected = InjectedState(ideContext)
  /\ client.sessionTurnCount >= 2
  /\ client.history
       = <<UserText(5), ModelText(2),
           UserText(ContextChars(FullContextKeys(ideContext))),
           RequestContent(frame.request)>>


\* ------------------------------------------------------------------- C37
\* the step yields an InvalidStream event of the model stream
YieldsInvalidStream ==
  /\ frame.pc = "stream"
  /\ Len(events') = Len(events) + 1
  /\ events'[Len(events')].type = "InvalidStream"

\* C37: when continue-on-failed-call is disabled, an InvalidStream event is
\* forwarded like any other event: the invocation makes no anomaly retry,
\* logs no retry failure and goes on reading its stream; no retry and no
\* retry failure is ever recorded under that configuration
C37_InvalidStreamIsForwardedWhenDisabled ==
  /\ [](~config.continueOnFailedApiCall
          => call.anomalyRetries = 0 /\ call.retryFailures = <<>>)
  /\ [][(YieldsInvalidStream /\ ~config.continueOnFailedApiCall)
          => /\ depth' = depth
             /\ frame' = [frame EXCEPT !.consumed = @ + 1]
             /\ call'.modelCalls = call.modelCalls
             /\ call'.inFlight = call.inFlight]_vars

\* with the retry disabled, an InvalidStream event was forwarded and the next
\* event of the same stream was forwarded after it
C37_Witness ==
  /\ ~config.continueOnFailedApiCall
  /\ frame.pc = "stream"
  /\ frame.consumed = 2
  /\ Len(events) >= 2
  /\ events[Len(events) - 1].type = "InvalidStream"
  /\ events[Len(events)].type = "Content"


\* ------------------------------------------------------------------- C38
\* C38: the session turn counter never decreases: resetChat, setHistory and
\* compression leave it as it is; and with a positive maximum, once an
\* invocation has yielded MaxSessionTurns every later invocation yields
\* MaxSessionTurns as its only event and returns without a model call
C38_TurnLimitIsFinal ==
  /\ [][client'.sessionTurnCount >= client.sessionTurnCount]_vars
  /\ [][(frame.pc # "start" /\ frame'.pc # "start")
          => client'.sessionTurnCount = client.sessionTurnCount]_vars
  /\ [][(call.limitReached /\ frame.pc = "start" /\ frame'.pc # "start")
          => /\ NewEvents = <<Event("MaxSessionTurns", 0, 0)>>
             /\ frame'.pc = "done"
             /\ call'.modelCalls = call.modelCalls
             /\ call'.inFlight = 0
             /\ client'.history = client.history]_vars

\* after the limit was reached the host reset the chat, and the next
\* sendMessage yielded MaxSessionTurns only
C38_Witness ==
  /\ config.maxSessionTurns > 0
  /\ call.limitReached
  /\ frame.pc = "done"
  /\ depth = 0
  /\ events = <<Event("MaxSessionTurns", 0, 0)>>
  /\ client.sessionTurnCount >= config.maxSessionTurns + 2
  /\ client.history = <<Handshake>>


\* ------------------------------------------------------------------- C39
\* C39: loadCliConfig yields approval mode DEFAULT whenever the folder is not
\* trusted, whatever --approval-mode and --yolo ask for; in a trusted folder
\* a recognised --approval-mode decides, whatever --yolo says, and without it
\* --yolo decides; an unrecognised --approval-mode value raises an error
C39_ApprovalModeFollowsTrustThenFlags ==
  cliConfig # NotLoaded =>
    /\ cliConfig.type = "thrown"
         <=> cliArgs.approvalMode \notin {"undefined", "default", "auto_edit", "yolo"}
    /\ cliConfig.type = "config" =>
         cliConfig.approvalMode
           = (IF ~cliArgs.trustedFolder THEN "DEFAULT"
              ELSE IF cliArgs.approvalMode = "yolo" THEN "YOLO"
              ELSE IF cliArgs.approvalMode = "auto_edit" THEN "AUTO_EDIT"
              ELSE IF cliArgs.approvalMode = "default" THEN "DEFAULT"
              ELSE IF cliArgs.yolo THEN "YOLO" ELSE "DEFAULT")

\* --approval-mode=yolo in a folder that is not trusted gave DEFAULT
C39_Witness ==
  /\ cliConfig.type = "config"
  /\ ~cliArgs.trustedFolder
  /\ cliArgs.approvalMode = "yolo"
  /\ cliConfig.approvalMode = "DEFAULT"


\* ------------------------------------------------------------------- C40
Range(list) == {list[i] : i \in 1..Len(list)}

\* the tools that would ask for a confirmation under an approval mode
NeedsPrompt(approvalMode) ==
  CASE approvalMode = "DEFAULT" -> {ShellToolName, EditToolName, WRITE_FILE_TOOL_NAME}
    [] approvalMode = "AUTO_EDIT" -> {ShellToolName}
    [] OTHER -> {}

\* the tool is on the allowed list, or it is the shell tool and an allowed
\* entry starts with one of the shell tool's names
ExplicitlyAllowed(tool, allowed) ==
  \/ tool \in Range(allowed)
  \/ /\ tool = ShellToolName
     /\ \E entry \in Range(allowed), shellName \in SHELL_TOOL_NAMES :
          StartsWith(entry, shellName)

\* C40: in non-interactive, non-ACP mode loadCliConfig adds to the excluded
\* tools exactly the tools that would need a confirmation under the approval
\* mode (DEFAULT: shell, edit, write-file; AUTO_EDIT: shell; YOLO: none) and
\* are not explicitly allowed; a tool on the allowed list is never added, the
\* shell tool is kept whenever an allowed entry starts with a shell tool
\* name; in interactive mode nothing is added
C40_PromptingToolsExcludedUnlessAllowed ==
  cliConfig.type = "config" =>
    /\ (~Interactive(cliArgs) /\ ~cliArgs.experimentalAcp)
         => Range(cliConfig.extraExcludes)
              = {tool \in NeedsPrompt(cliConfig.approvalMode) :
                   ~ExplicitlyAllowed(tool, AllowedTools(cliArgs))}
    /\ Range(cliConfig.extraExcludes) \cap Range(AllowedTools(cliArgs)) = {}
    /\ Len(cliConfig.extraExcludes) = Cardinality(Range(cliConfig.extraExcludes))
    /\ Interactive(cliArgs) => cliConfig.extraExcludes = <<>>

\* non-interactive with approval mode DEFAULT: the shell tool is allowed with
\* a subcommand and kept, the edit tool is allowed and kept, write-file is
\* excluded
C40_Witness ==
  /\ cliConfig.type = "config"
  /\ ~Interactive(cliArgs)
  /\ ~cliArgs.experimentalAcp
  /\ cliConfig.approvalMode = "DEFAULT"
  /\ cliArgs.allowedTools = <<ShellToolName \o <<"(git)">>, EditToolName>>
  /\ cliConfig.extraExcludes = <<WRITE_FILE_TOOL_NAME>>

====
